---------------------------- MODULE Spec2Model ----------------------------
(***************************************************************************)
(* Model of src/src/tokenRoutes.ts: the hub and spoke event stores         *)
(* (HubPoolUtils, SpokePoolUtils), their derived views, and the route      *)
(* aggregator fetchRoutes.                                                 *)
(*                                                                         *)
(* An event is a record [event, blockNumber, transactionIndex, logIndex,   *)
(* args]; transactionHash is only quoted in an error message and is left   *)
(* out.  A JavaScript object (Record<..>) is the sequence of its           *)
(* [key, value] entries in iteration order; an absent key reads as         *)
(* Undefined.                                                              *)
(***************************************************************************)
EXTENDS Integers, Sequences, FiniteSets, TLC

VARIABLES
  hubUpstream,   \* what the hub's log source answers to the coming fetches
  hubEvents,     \* HubPoolUtils.events
  wethAddress,   \* HubPoolUtils.wethAddress
  hubPc,         \* where HubPoolUtils.update() stands
  hubResult,     \* how the latest HubPoolUtils.update() ended
  hubFetched,    \* history: the five results of the latest fetchEvents()
  hubStored,     \* history: the five results of every fetch that was stored
  hubUpdates     \* history: how every completed update() ended

hubVars ==
  <<hubUpstream, hubEvents, wethAddress, hubPc, hubResult, hubFetched,
    hubStored, hubUpdates>>

VARIABLES
  spokeUpstream, \* per chain: what the spoke's log source answers to the coming fetches
  spokeStore,    \* per chain: the SpokePoolUtils instance, its fields and where update() stands
  spokeStored    \* history, per chain: the result of every fetch that was stored

spokeVars == <<spokeUpstream, spokeStore, spokeStored>>

VARIABLES
  frPc,                 \* where fetchRoutes() stands
  frResult,             \* << >>, or the one RouteConfig fetchRoutes() resolved with
  frError,              \* the error fetchRoutes() rejected with
  spokePoolAddresses,   \* fetchRoutes' const of line 376
  spokeTokenTable,      \* fetchRoutes' const of line 377
  task,                 \* per entry of spokePoolAddresses: the async callback of line 384
  constructed,          \* history: the SpokePoolUtils built at line 394, in order
  completed             \* history: the chains whose callback resolved, in that order

frVars ==
  <<frPc, frResult, frError, spokePoolAddresses, spokeTokenTable, task,
    constructed, completed>>

VARIABLES
  qStore,        \* whose fetchEvents() is followed query by query: "hub", "spoke"
  qConfig,       \* that store's startBlock and maxRange
  currentHead,   \* what the provider's getBlockNumber() answers
  latestBlock,   \* fetchEvents' const latestBlock, once the head was read
  qPc,           \* where that fetchEvents() stands
  fetchers,      \* per entry of its queries array: the incrementalEvents call
  issued         \* history: the queryFilter calls made, in order

queryVars ==
  <<qStore, qConfig, currentHead, latestBlock, qPc, fetchers, issued>>

vars == <<hubVars, spokeVars, frVars, queryVars>>

----------------------------------------------------------------------------
(* Bounds *)

\* the longest combined result of one fetchEvents() call
MaxFetched == 3

----------------------------------------------------------------------------
(* Values *)

Undefined == "undefined"

\* how a rejected promise ends: the error of line 264, or whatever the
\* provider threw
DuplicateEvents == "Duplicate events found on transaction"
UpstreamError == "upstream error"

L1TokenEnabledForLiquidityProvision == "L1TokenEnabledForLiquidityProvision"
L2TokenDisabledForLiquidityProvision == "L2TokenDisabledForLiquidityProvision"
SetEnableDepositRoute == "SetEnableDepositRoute"
CrossChainContractsSet == "CrossChainContractsSet"
SetPoolRebalanceRoute == "SetPoolRebalanceRoute"
EnabledDepositRoute == "EnabledDepositRoute"

\* the order of the queries array of HubPoolUtils.fetchEvents
HubQueryKinds ==
  << L1TokenEnabledForLiquidityProvision,
     L2TokenDisabledForLiquidityProvision,
     SetEnableDepositRoute,
     CrossChainContractsSet,
     SetPoolRebalanceRoute >>

isSetEnableDepositRoute(event) == event.event = SetEnableDepositRoute
isCrossChainContractsSet(event) == event.event = CrossChainContractsSet
isL1TokenEnabledForLiquidityProvision(event) ==
  event.event = L1TokenEnabledForLiquidityProvision
isL2TokenDisabledForLiquidityProvision(event) ==
  event.event = L2TokenDisabledForLiquidityProvision
isSetPoolRebalanceRoute(event) == event.event = SetPoolRebalanceRoute
isEnabledDepositRoute(event) == event.event = EnabledDepositRoute

----------------------------------------------------------------------------
(* Helpers over sequences and objects *)

SeqsUpTo(S, n) == UNION { [1..k -> S] : k \in 0..n }

Range(s) == { s[i] : i \in DOMAIN s }

RECURSIVE flat(_)
\* Array.prototype.flat over an array of arrays
flat(arrays) ==
  IF arrays = << >> THEN << >> ELSE Head(arrays) \o flat(Tail(arrays))

\* Number(key): the number a decimal property key such as "137" stands for.
\* ChainIdUniverse holds every chain id the model's events mention.
ChainIdUniverse == {1, 10, 137, 999}

\* BigNumber.toString() / the property key an integer index is stored under
toString(n) == ToString(n)

Number(key) == CHOOSE n \in ChainIdUniverse : toString(n) = key

(* A JavaScript object is the sequence of its entries [key, value] in the    *)
(* order Object.keys / Object.entries / Object.values walk them: integer    *)
(* keys ascending, string keys in insertion order.                          *)
EmptyObject == << >>

Has(object, key) == \E i \in DOMAIN object : object[i].key = key

\* object[key], undefined when the key is absent
Get(object, key) ==
  IF Has(object, key)
  THEN object[CHOOSE i \in DOMAIN object : object[i].key = key].value
  ELSE Undefined

Replace(object, key, value) ==
  [i \in DOMAIN object |->
     IF object[i].key = key THEN [key |-> key, value |-> value] ELSE object[i]]

\* object[key] = value, key a string that is no integer index
PutString(object, key, value) ==
  IF Has(object, key)
  THEN Replace(object, key, value)
  ELSE Append(object, [key |-> key, value |-> value])

\* object[key] = value, key an integer index: integer keys stay ascending
PutIndex(object, key, value) ==
  IF Has(object, key)
  THEN Replace(object, key, value)
  ELSE SelectSeq(object, LAMBDA e : Number(e.key) < Number(key))
       \o << [key |-> key, value |-> value] >>
       \o SelectSeq(object, LAMBDA e : Number(e.key) > Number(key))

\* delete object[key]
Delete(object, key) == SelectSeq(object, LAMBDA e : e.key # key)

ObjectKeys(object) == [i \in DOMAIN object |-> object[i].key]
ObjectValues(object) == [i \in DOMAIN object |-> object[i].value]

(* A JavaScript Set is the sequence of its members in insertion order.      *)
SetAdd(set, member) ==
  IF member \in Range(set) THEN set ELSE Append(set, member)

SetDelete(set, member) == SelectSeq(set, LAMBDA m : m # member)

----------------------------------------------------------------------------
(* HubPoolUtils.fetchEvents: the comparator and the sort *)

Returned(order) == [threw |-> FALSE, value |-> order]
Threw == [threw |-> TRUE, value |-> 0]

\* compareEvents with logIndex consulted before transactionIndex
compareLogIndexFirst(a, b) ==
  IF a.blockNumber # b.blockNumber
  THEN Returned(a.blockNumber - b.blockNumber)
  ELSE IF a.logIndex # b.logIndex
  THEN Returned(a.logIndex - b.logIndex)
  ELSE IF a.transactionIndex # b.transactionIndex
  THEN Returned(a.transactionIndex - b.transactionIndex)
  ELSE Threw

\* compareEvents with a tie reported as "equal" instead of thrown
compareTieIsEqual(a, b) ==
  IF a.blockNumber # b.blockNumber
  THEN Returned(a.blockNumber - b.blockNumber)
  ELSE IF a.transactionIndex # b.transactionIndex
  THEN Returned(a.transactionIndex - b.transactionIndex)
  ELSE Returned(a.logIndex - b.logIndex)

\* the comparator handed to sort() at lines 258-267; a tie on all three
\* fields throws "Duplicate events found on transaction"
compareEvents(a, b) ==
  IF a.blockNumber # b.blockNumber
  THEN Returned(a.blockNumber - b.blockNumber)
  ELSE IF a.transactionIndex # b.transactionIndex
  THEN Returned(a.transactionIndex - b.transactionIndex)
  ELSE IF a.logIndex # b.logIndex
  THEN Returned(a.logIndex - b.logIndex)
  ELSE Threw

RECURSIVE insertSorted(_, _)
\* One step of Array.prototype.sort as an insertion sort: place e in the
\* sorted prefix, comparing from its right end; a throw of the comparator
\* ends the sort.
insertSorted(sorted, e) ==
  IF sorted = << >>
  THEN [threw |-> FALSE, value |-> << e >>]
  ELSE LET last == sorted[Len(sorted)]
           c == compareEvents(last, e)
       IN IF c.threw
          THEN [threw |-> TRUE, value |-> << >>]
          ELSE IF c.value > 0
          THEN LET r == insertSorted(SubSeq(sorted, 1, Len(sorted) - 1), e)
               IN IF r.threw
                  THEN r
                  ELSE [threw |-> FALSE, value |-> Append(r.value, last)]
          ELSE [threw |-> FALSE, value |-> Append(sorted, e)]

RECURSIVE sort(_)
\* Array.prototype.sort with compareEvents: the sorted array, or the throw
sort(events) ==
  IF events = << >>
  THEN [threw |-> FALSE, value |-> << >>]
  ELSE LET prefix == sort(SubSeq(events, 1, Len(events) - 1))
       IN IF prefix.threw
          THEN prefix
          ELSE insertSorted(prefix.value, events[Len(events)])

----------------------------------------------------------------------------
(* HubPoolUtils: the derived views, each a fold of the stored log *)

\* SpokePoolAddressStep that keeps the address first written for a chain
SpokePoolAddressStepFirstWins(result, event) ==
  IF ~isCrossChainContractsSet(event)
  THEN result
  ELSE IF Has(result, toString(event.args.l2ChainId))
  THEN result
  ELSE PutIndex(result, toString(event.args.l2ChainId), event.args.spokePool)

\* the reducer of getSpokePoolAddresses, lines 273-275
SpokePoolAddressStep(result, event) ==
  IF ~isCrossChainContractsSet(event)
  THEN result
  ELSE PutIndex(result, toString(event.args.l2ChainId), event.args.spokePool)

RECURSIVE getSpokePoolAddresses(_)
getSpokePoolAddresses(events) ==
  IF events = << >>
  THEN EmptyObject
  ELSE SpokePoolAddressStep(
         getSpokePoolAddresses(SubSeq(events, 1, Len(events) - 1)),
         events[Len(events)])

\* L1LpStep with a disable that keeps the key and blanks its value
L1LpStepTombstone(result, event) ==
  LET enabled == IF isL1TokenEnabledForLiquidityProvision(event)
                 THEN PutString(result, event.args.l1Token, event.args.lpToken)
                 ELSE result
  IN IF isL2TokenDisabledForLiquidityProvision(event)
     THEN PutString(enabled, event.args.l1Token, Undefined)
     ELSE enabled

\* the reducer of getL1LpTokenTable, lines 281-287
L1LpStep(result, event) ==
  LET enabled == IF isL1TokenEnabledForLiquidityProvision(event)
                 THEN PutString(result, event.args.l1Token, event.args.lpToken)
                 ELSE result
  IN IF isL2TokenDisabledForLiquidityProvision(event)
     THEN Delete(enabled, event.args.l1Token)
     ELSE enabled

RECURSIVE getL1LpTokenTable(_)
getL1LpTokenTable(events) ==
  IF events = << >>
  THEN EmptyObject
  ELSE L1LpStep(getL1LpTokenTable(SubSeq(events, 1, Len(events) - 1)),
                events[Len(events)])

getL1Tokens(events) == ObjectKeys(getL1LpTokenTable(events))
getLpTokens(events) == ObjectValues(getL1LpTokenTable(events))

\* SpokeTokenStep keyed by (destinationChainId, destinationToken): an
\* event for another chain than the entry's does not overwrite it
SpokeTokenStepPerChain(result, event) ==
  IF ~isSetPoolRebalanceRoute(event)
  THEN result
  ELSE IF /\ Has(result, event.args.destinationToken)
          /\ event.args.destinationChainId # 10
       THEN result
       ELSE PutString(result, event.args.destinationToken, event.args.l1Token)

\* the body of the forEach of getSpokeTokenTable, lines 300-302
SpokeTokenStep(result, event) ==
  IF ~isSetPoolRebalanceRoute(event)
  THEN result
  ELSE PutString(result, event.args.destinationToken, event.args.l1Token)

RECURSIVE getSpokeTokenTable(_)
getSpokeTokenTable(events) ==
  IF events = << >>
  THEN EmptyObject
  ELSE SpokeTokenStep(getSpokeTokenTable(SubSeq(events, 1, Len(events) - 1)),
                      events[Len(events)])

\* the body of the forEach of getRoutes, lines 309-319
RoutesStep(result, event) ==
  IF ~isSetEnableDepositRoute(event)
  THEN result
  ELSE LET origin == toString(event.args.originChainId)
           destination == toString(event.args.destinationChainId)
           byOrigin == IF ~Has(result, origin)
                       THEN PutIndex(result, origin, EmptyObject)
                       ELSE result
           byDestination ==
             IF ~Has(Get(byOrigin, origin), destination)
             THEN PutIndex(Get(byOrigin, origin), destination, EmptyObject)
             ELSE Get(byOrigin, origin)
       IN PutIndex(byOrigin, origin,
            PutIndex(byDestination, destination,
              PutString(Get(byDestination, destination),
                        event.args.originToken, event.args.depositsEnabled)))

RECURSIVE getRoutes(_)
getRoutes(events) ==
  IF events = << >>
  THEN EmptyObject
  ELSE RoutesStep(getRoutes(SubSeq(events, 1, Len(events) - 1)),
                  events[Len(events)])

----------------------------------------------------------------------------
(* SpokePoolUtils: the derived views *)

\* RoutesEnabledStep with a disable that drops the destination chain's
\* whole entry
RoutesEnabledStepDropsChain(result, event) ==
  IF ~isEnabledDepositRoute(event)
  THEN result
  ELSE LET key == toString(event.args.destinationChainId)
           withKey == IF ~Has(result, key)
                      THEN PutIndex(result, key, << >>)
                      ELSE result
       IN IF event.args.enabled
          THEN PutIndex(withKey, key,
                        SetAdd(Get(withKey, key), event.args.originToken))
          ELSE Delete(withKey, key)

\* the reducer of routesEnabled, lines 137-146
RoutesEnabledStep(result, event) ==
  IF ~isEnabledDepositRoute(event)
  THEN result
  ELSE LET key == toString(event.args.destinationChainId)
           withKey == IF ~Has(result, key)
                      THEN PutIndex(result, key, << >>)
                      ELSE result
       IN IF event.args.enabled
          THEN PutIndex(withKey, key,
                        SetAdd(Get(withKey, key), event.args.originToken))
          ELSE PutIndex(withKey, key,
                        SetDelete(Get(withKey, key), event.args.originToken))

RECURSIVE routesEnabledSets(_)
routesEnabledSets(events) ==
  IF events = << >>
  THEN EmptyObject
  ELSE RoutesEnabledStep(routesEnabledSets(SubSeq(events, 1, Len(events) - 1)),
                         events[Len(events)])

\* the Sets are spread into arrays, which keeps each Set's insertion order
routesEnabled(events) == routesEnabledSets(events)

RECURSIVE addAll(_, _)
addAll(set, members) ==
  IF members = << >>
  THEN set
  ELSE addAll(SetAdd(set, Head(members)), Tail(members))

getSupportedTokens(events) ==
  addAll(<< >>, flat(ObjectValues(routesEnabled(events))))

getSupportedChains(events) ==
  LET keys == ObjectKeys(routesEnabled(events))
  IN [i \in DOMAIN keys |-> Number(keys[i])]

----------------------------------------------------------------------------
(* The hub's upstream: what the five range fetches may answer *)

\* ordering keys <<blockNumber, transactionIndex, logIndex>>: every pair of
\* them is decided by a different field, or by one field against a later one
HubKeys == { <<1, 0, 0>>, <<1, 0, 1>>, <<1, 1, 0>>, <<2, 0, 0>> }

\* keys of two blocks, and of two transactions of one block
FewKeys == { <<1, 0, 1>>, <<1, 1, 0>>, <<2, 0, 0>> }

Event(kind, key, args) ==
  [event |-> kind, blockNumber |-> key[1], transactionIndex |-> key[2],
   logIndex |-> key[3], args |-> args]

EventsOf(kind, argSet, keys) ==
  { Event(kind, key, args) : key \in keys, args \in argSet }

L1EnabledArgs ==
  { [l1Token |-> "0xL1A", lpToken |-> p] : p \in {"0xLpX", "0xLpY"} }
  \cup { [l1Token |-> "0xL1B", lpToken |-> "0xLpX"] }
L2DisabledArgs == { [l1Token |-> "0xL1A"] }
DepositRouteArgs ==
  { [originChainId |-> 10, destinationChainId |-> 1, originToken |-> "0xToken",
     depositsEnabled |-> TRUE] }
CrossChainArgs ==
  { [l2ChainId |-> 10, spokePool |-> a] : a \in {"0xSpoke", "0xSpokeNew"} }
  \cup { [l2ChainId |-> 137, spokePool |-> "0xSpoke"] }
RebalanceArgs ==
  { [destinationChainId |-> 10, l1Token |-> "0xL1A",
     destinationToken |-> "0xToken"],
    [destinationChainId |-> 137, l1Token |-> "0xL1B",
     destinationToken |-> "0xToken"],
    [destinationChainId |-> 10, l1Token |-> "0xL1A",
     destinationToken |-> "0xOther"] }

\* every kind, one event of each per key: the interleavings the sort sees
AllKindsEvents ==
  EventsOf(L1TokenEnabledForLiquidityProvision,
           {[l1Token |-> "0xL1A", lpToken |-> "0xLpX"]}, HubKeys)
  \cup EventsOf(L2TokenDisabledForLiquidityProvision,
                {[l1Token |-> "0xL1A"]}, {<<1, 0, 1>>, <<2, 0, 0>>})
  \cup EventsOf(SetEnableDepositRoute, DepositRouteArgs, {<<1, 0, 1>>})
  \cup EventsOf(CrossChainContractsSet,
                {[l2ChainId |-> 10, spokePool |-> "0xSpoke"]},
                {<<1, 0, 0>>, <<1, 1, 0>>})
  \cup EventsOf(SetPoolRebalanceRoute,
                {[destinationChainId |-> 10, l1Token |-> "0xL1A",
                  destinationToken |-> "0xToken"]},
                {<<1, 0, 1>>, <<2, 0, 0>>})

\* the liquidity-provision kinds with their arguments varied
LiquidityEvents ==
  EventsOf(L1TokenEnabledForLiquidityProvision, L1EnabledArgs, FewKeys)
  \cup EventsOf(L2TokenDisabledForLiquidityProvision, L2DisabledArgs, FewKeys)

RebalanceEvents == EventsOf(SetPoolRebalanceRoute, RebalanceArgs, FewKeys)

CrossChainEvents == EventsOf(CrossChainContractsSet, CrossChainArgs, FewKeys)

\* the results of the five queries, in the order of the queries array, when
\* the log source holds `log`
Answers(log) ==
  [k \in DOMAIN HubQueryKinds |->
     SelectSeq(log, LAMBDA e : e.event = HubQueryKinds[k])]

HubAnswers ==
  { Answers(log) :
      log \in SeqsUpTo(AllKindsEvents, MaxFetched)
              \cup SeqsUpTo(LiquidityEvents, MaxFetched)
              \cup SeqsUpTo(RebalanceEvents, MaxFetched)
              \cup SeqsUpTo(CrossChainEvents, MaxFetched) }

\* two successive fetches whose upstream differs
HubRefetchEvents ==
  { Event(CrossChainContractsSet, <<1, 0, 0>>,
          [l2ChainId |-> 10, spokePool |-> "0xSpoke"]),
    Event(CrossChainContractsSet, <<2, 0, 0>>,
          [l2ChainId |-> 10, spokePool |-> "0xSpokeNew"]),
    Event(L1TokenEnabledForLiquidityProvision, <<1, 0, 1>>,
          [l1Token |-> "0xL1A", lpToken |-> "0xLpX"]),
    Event(SetPoolRebalanceRoute, <<1, 1, 0>>,
          [destinationChainId |-> 10, l1Token |-> "0xL1A",
           destinationToken |-> "0xToken"]) }

HubRefetchAnswers ==
  { Answers(log) : log \in SeqsUpTo(HubRefetchEvents, MaxFetched - 1) }

\* a hub store's upstream: the answers to its successive fetchEvents() calls
HubUpstreams ==
  { << a >> : a \in HubAnswers }
  \cup { << a, b >> : a \in HubRefetchAnswers, b \in HubRefetchAnswers }

\* what the contract's weth() returns
WethOnChain == "0xWETH"

----------------------------------------------------------------------------
(* SpokePoolUtils: the upstream, update() and fetchEvents() *)

\* the chains of the chain configuration: isSupportedChainId
SupportedChainIds == {1, 10, 137}
isSupportedChainId(chainId) == chainId \in SupportedChainIds

\* the chains a spoke store may be built for
SpokeChains == {10, 137}

\* the address update() falls back to, line 109
FallbackWrappedNative == "0x4200000000000000000000000000000000000006"

\* what the spoke contract's wrappedNativeToken() returns on each chain
WrappedNativeOnChain ==
  [c \in SpokeChains |-> IF c = 10 THEN FallbackWrappedNative ELSE "0xToken"]

DepositArgs ==
  { [destinationChainId |-> d, originToken |-> t, enabled |-> b] :
      d \in {1, 137}, t \in {"0xToken", FallbackWrappedNative}, b \in BOOLEAN }

\* logs of at most n events with the given arguments; the i-th event of a
\* log is the i-th of its block
SpokeLogs(argSet, n) ==
  UNION { { [i \in 1..k |-> Event(EnabledDepositRoute, <<1, 0, i>>, args[i])] :
              args \in [1..k -> argSet] } : k \in 0..n }

\* two successive fetches whose upstream differs
SpokeRefetchArgs ==
  { [destinationChainId |-> 1, originToken |-> "0xToken", enabled |-> b] :
      b \in BOOLEAN }
  \cup { [destinationChainId |-> 137, originToken |-> FallbackWrappedNative,
          enabled |-> TRUE] }

\* answers in which two events carry the same ordering key
SpokeDuplicateLogs ==
  { << Event(EnabledDepositRoute, <<1, 0, 1>>, a),
       Event(EnabledDepositRoute, <<1, 0, 1>>, b) >> :
      a \in SpokeRefetchArgs, b \in SpokeRefetchArgs }

\* a spoke store's upstream: the answers to its successive fetchEvents() calls
SpokeUpstreams ==
  { << log >> : log \in SpokeLogs(DepositArgs, MaxFetched) }
  \cup { << log >> : log \in SpokeDuplicateLogs }
  \cup { << a, b >> : a \in SpokeLogs(SpokeRefetchArgs, MaxFetched - 1),
                      b \in SpokeLogs(SpokeRefetchArgs, MaxFetched - 1) }

\* no SpokePoolUtils was constructed for the chain
NoStore ==
  [address |-> Undefined, events |-> << >>, wrappedNativeToken |-> Undefined,
   pc |-> "unconstructed", result |-> "none",
   fetch |-> "none", accessor |-> "none"]

\* new SpokePoolUtils(address, ...): lines 94-103
\* fetch and accessor are history: how fetchEvents() and the
\* wrappedNativeToken() call of the latest update() ended
NewSpokePoolUtils(address) ==
  [address |-> address, events |-> << >>, wrappedNativeToken |-> Undefined,
   pc |-> "idle", result |-> "none",
   fetch |-> "none", accessor |-> "none"]

NoSpokes ==
  /\ spokeUpstream = [c \in SpokeChains |-> << >>]
  /\ spokeStore = [c \in SpokeChains |-> NoStore]
  /\ spokeStored = [c \in SpokeChains |-> << >>]

\* SpokePoolUtils.fetchEvents with the new events appended to the stored log
fetchedSpokeEventsMerged(previous, results) == previous \o flat(results)

\* what SpokePoolUtils.fetchEvents assigns to this.events, line 131
fetchedSpokeEvents(previous, results) == flat(results)

\* update() is called: it calls fetchEvents(), which awaits the provider
SpokeUpdateCall(c) ==
  /\ spokeStore[c].pc = "idle"
  /\ spokeUpstream[c] # << >>
  /\ spokeStore' = [spokeStore EXCEPT ![c].pc = "fetchEvents",
                                      ![c].result = "pending",
                                      ![c].fetch = "none",
                                      ![c].accessor = "none"]
  /\ UNCHANGED <<spokeUpstream, spokeStored>>

\* the block number, the network and the one range fetch have resolved:
\* this.events = (await mapSeries(queries)).flat()
SpokeFetchEvents(c) ==
  /\ spokeStore[c].pc = "fetchEvents"
  /\ LET fetched == Head(spokeUpstream[c])
     IN /\ spokeStore' =
             [spokeStore EXCEPT
                ![c].events = fetchedSpokeEvents(@, << fetched >>),
                ![c].pc = "wrappedNativeToken",
                ![c].fetch = "returned"]
        /\ spokeStored' = [spokeStored EXCEPT ![c] = Append(@, fetched)]
  /\ spokeUpstream' = [spokeUpstream EXCEPT ![c] = Tail(@)]

\* getBlockNumber(), getNetwork() or the range fetch rejects
SpokeFetchEventsFails(c) ==
  /\ spokeStore[c].pc = "fetchEvents"
  /\ spokeStore' = [spokeStore EXCEPT ![c].pc = "idle",
                                      ![c].result = UpstreamError,
                                      ![c].fetch = "failed"]
  /\ spokeUpstream' = [spokeUpstream EXCEPT ![c] = Tail(@)]
  /\ UNCHANGED spokeStored

\* this.wrappedNativeToken = await this.contract.wrappedNativeToken()
SpokeWrappedNative(c) ==
  /\ spokeStore[c].pc = "wrappedNativeToken"
  /\ spokeStore' =
       [spokeStore EXCEPT ![c].wrappedNativeToken = WrappedNativeOnChain[c],
                          ![c].pc = "idle",
                          ![c].result = "resolved",
                          ![c].accessor = "returned"]
  /\ UNCHANGED <<spokeUpstream, spokeStored>>

\* SpokeWrappedNativeFallback without the try/catch: the rejection of the
\* accessor is update()'s
SpokeWrappedNativePropagates(c) ==
  /\ spokeStore[c].pc = "wrappedNativeToken"
  /\ spokeStore' = [spokeStore EXCEPT ![c].pc = "idle",
                                      ![c].result = UpstreamError,
                                      ![c].accessor = "failed"]
  /\ UNCHANGED <<spokeUpstream, spokeStored>>

\* the accessor rejects and the catch block assigns the fallback
SpokeWrappedNativeFallback(c) ==
  /\ spokeStore[c].pc = "wrappedNativeToken"
  /\ spokeStore' =
       [spokeStore EXCEPT ![c].wrappedNativeToken = FallbackWrappedNative,
                          ![c].pc = "idle",
                          ![c].result = "resolved",
                          ![c].accessor = "failed"]
  /\ UNCHANGED <<spokeUpstream, spokeStored>>

----------------------------------------------------------------------------
(* HubPoolUtils: update() and fetchEvents() *)

\* how an update() ended
Succeeded == "succeeded"
FailedInFetchEvents == "failed in fetchEvents()"
FailedInWeth == "failed in weth()"

\* new HubPoolUtils(...): lines 171-180
HubConstructed ==
  /\ hubEvents = << >>
  /\ wethAddress = Undefined
  /\ hubPc = "idle"
  /\ hubResult = "none"
  /\ hubFetched = << >>
  /\ hubStored = << >>
  /\ hubUpdates = << >>

\* HubPoolUtils.fetchEvents with the new events merged into the stored log
fetchedHubEventsMerged(previous, results) == sort(previous \o flat(results))

\* what HubPoolUtils.fetchEvents assigns to this.events, lines 256-267: the
\* sorted array, unless sort() throws
fetchedHubEvents(previous, results) == sort(flat(results))

\* update() is called: it calls fetchEvents(), which awaits the provider
HubUpdateCall ==
  /\ hubPc = "idle"
  /\ hubUpstream # << >>
  /\ hubPc' = "fetchEvents"
  /\ hubResult' = "pending"
  /\ hubFetched' = << >>
  /\ UNCHANGED <<hubUpstream, hubEvents, wethAddress, hubStored, hubUpdates>>

\* HubFetchEvents that assigns the concatenated results to this.events and
\* sorts them in place: the log is replaced although sort() throws
HubFetchEventsInPlace ==
  /\ hubPc = "fetchEvents"
  /\ LET fetched == Head(hubUpstream)
         sorted == fetchedHubEvents(hubEvents, fetched)
     IN /\ hubFetched' = fetched
        /\ IF sorted.threw
           THEN /\ hubEvents' = flat(fetched)
                /\ hubPc' = "idle"
                /\ hubResult' = DuplicateEvents
                /\ hubUpdates' = Append(hubUpdates, FailedInFetchEvents)
                /\ UNCHANGED hubStored
           ELSE /\ hubEvents' = sorted.value
                /\ hubStored' = Append(hubStored, fetched)
                /\ hubPc' = "weth"
                /\ UNCHANGED <<hubResult, hubUpdates>>
  /\ hubUpstream' = Tail(hubUpstream)
  /\ UNCHANGED wethAddress

\* the block number and the five range fetches have resolved: the results
\* are concatenated and sorted; the log is assigned only if sort() returns
HubFetchEvents ==
  /\ hubPc = "fetchEvents"
  /\ LET fetched == Head(hubUpstream)
         sorted == fetchedHubEvents(hubEvents, fetched)
     IN /\ hubFetched' = fetched
        /\ IF sorted.threw
           THEN /\ hubPc' = "idle"
                /\ hubResult' = DuplicateEvents
                /\ hubUpdates' = Append(hubUpdates, FailedInFetchEvents)
                /\ UNCHANGED <<hubEvents, hubStored>>
           ELSE /\ hubEvents' = sorted.value
                /\ hubStored' = Append(hubStored, fetched)
                /\ hubPc' = "weth"
                /\ UNCHANGED <<hubResult, hubUpdates>>
  /\ hubUpstream' = Tail(hubUpstream)
  /\ UNCHANGED wethAddress

\* getBlockNumber() or one of the range fetches rejects
HubFetchEventsFails ==
  /\ hubPc = "fetchEvents"
  /\ hubPc' = "idle"
  /\ hubResult' = UpstreamError
  /\ hubUpstream' = Tail(hubUpstream)
  /\ hubUpdates' = Append(hubUpdates, FailedInFetchEvents)
  /\ UNCHANGED <<hubEvents, wethAddress, hubFetched, hubStored>>

\* this.wethAddress = await this.contract.weth()
HubWeth ==
  /\ hubPc = "weth"
  /\ wethAddress' = WethOnChain
  /\ hubPc' = "idle"
  /\ hubResult' = "resolved"
  /\ hubUpdates' = Append(hubUpdates, Succeeded)
  /\ UNCHANGED <<hubUpstream, hubEvents, hubFetched, hubStored>>

\* contract.weth() rejects
HubWethFails ==
  /\ hubPc = "weth"
  /\ hubPc' = "idle"
  /\ hubResult' = UpstreamError
  /\ hubUpdates' = Append(hubUpdates, FailedInWeth)
  /\ UNCHANGED <<hubUpstream, hubEvents, wethAddress, hubFetched, hubStored>>

WethNotSet == "weth address not set"

\* getWethAddress without its assert
getWethAddressUnchecked(address) == Returned(address)

\* getWethAddress(), lines 186-189, on a store whose wethAddress is `address`
getWethAddress(address) ==
  IF address = Undefined
  THEN [threw |-> TRUE, value |-> WethNotSet]
  ELSE Returned(address)

NoHub ==
  /\ hubUpstream = << >>
  /\ HubConstructed

----------------------------------------------------------------------------
(* fetchRoutes *)

\* the chain configuration's nativeCurrencySymbol, read through getChainInfo
getChainInfo(chainId) ==
  [nativeCurrencySymbol |-> IF chainId = 137 THEN "MATIC" ELSE "ETH"]

\* what the ERC20 contract's symbol() returns
SymbolOnChain(tokenAddress) ==
  IF tokenAddress = FallbackWrappedNative THEN "WETH" ELSE "TKN"

HubPoolChain == 1
HubPoolAddress == "0xHubPool"

\* the chain ids an entry of the hub's spoke-address table may carry
TaskChains == {10, 137, 999}

NoTask ==
  [status |-> "none", routes |-> EmptyObject, supportedTokens |-> << >>,
   wrappedNativeToken |-> Undefined, symbols |-> << >>, error |-> ""]

\* fetchRoutes() was not called
NoFetchRoutes ==
  /\ frPc = "notCalled"
  /\ frResult = << >>
  /\ frError = ""
  /\ spokePoolAddresses = EmptyObject
  /\ spokeTokenTable = EmptyObject
  /\ task = [c \in TaskChains |-> NoTask]
  /\ constructed = << >>
  /\ completed = << >>

MissingChain(fromChain) == "Missing supported chain id: " \o fromChain
MissingWrappedNative == "Spoke pool missing wrapped native token address"
SymbolError == "symbol() failed"

\* hubPool.update() rejected: so does fetchRoutes(), line 375
FetchRoutesHubRejected ==
  /\ frPc = "hubUpdate"
  /\ hubResult \in {DuplicateEvents, UpstreamError}
  /\ frPc' = "rejected"
  /\ frError' = hubResult
  /\ UNCHANGED <<frResult, spokePoolAddresses, spokeTokenTable, task, constructed,
               completed>>
  /\ UNCHANGED <<hubVars, spokeVars, queryVars>>

\* the synchronous part of the callback of lines 384-405 for one entry: the
\* assert, the store's construction, and getSpokePoolState up to its first
\* await, inside spoke.update()
StartedTask(fromChain) ==
  IF isSupportedChainId(Number(fromChain))
  THEN [NoTask EXCEPT !.status = "update"]
  ELSE [NoTask EXCEPT !.status = "rejected", !.error = MissingChain(fromChain)]

\* lines 376-407: hubPool.update() resolved; the tables are read and one
\* callback per entry of spokePoolAddresses is started
FetchRoutesFanOut ==
  /\ frPc = "hubUpdate"
  /\ hubResult = "resolved"
  /\ LET addresses == getSpokePoolAddresses(hubEvents)
     IN /\ spokePoolAddresses' = addresses
        /\ spokeTokenTable' = getSpokeTokenTable(hubEvents)
        /\ IF getWethAddress(wethAddress).threw
           THEN /\ frPc' = "rejected"
                /\ frError' = WethNotSet
                /\ UNCHANGED <<task, spokeStore, constructed>>
           ELSE /\ frPc' = "spokes"
                /\ frError' = ""
                /\ task' = [c \in TaskChains |->
                              IF Has(addresses, toString(c))
                              THEN StartedTask(toString(c))
                              ELSE NoTask]
                /\ spokeStore' =
                     [c \in SpokeChains |->
                        IF /\ Has(addresses, toString(c))
                           /\ isSupportedChainId(Number(toString(c)))
                        THEN [NewSpokePoolUtils(Get(addresses, toString(c)))
                                EXCEPT !.pc = "fetchEvents",
                                       !.result = "pending"]
                        ELSE spokeStore[c]]
                /\ constructed' =
                     SelectSeq([i \in DOMAIN addresses |->
                                  [chainId |-> Number(addresses[i].key),
                                   address |-> addresses[i].value]],
                               LAMBDA made : isSupportedChainId(made.chainId))
  /\ UNCHANGED <<frResult, completed, spokeUpstream, spokeStored>>
  /\ UNCHANGED <<hubVars, queryVars>>

\* Object.fromEntries over the resolved [tokenAddress, symbol] pairs
RECURSIVE fromEntries(_)
fromEntries(pairs) ==
  IF pairs = << >>
  THEN EmptyObject
  ELSE PutString(fromEntries(SubSeq(pairs, 1, Len(pairs) - 1)),
                 pairs[Len(pairs)][1], pairs[Len(pairs)][2])

\* lines 331-335: spoke.update() resolved; the views are read, the wrapped
\* native token is asserted and the symbol lookups are started
GetSpokePoolStateReads(c) ==
  /\ task[c].status = "update"
  /\ spokeStore[c].result = "resolved"
  /\ LET tokens == getSupportedTokens(spokeStore[c].events)
         read == [task[c] EXCEPT
                    !.routes = routesEnabled(spokeStore[c].events),
                    !.supportedTokens = tokens,
                    !.wrappedNativeToken = spokeStore[c].wrappedNativeToken]
     IN task' = [task EXCEPT ![c] =
          IF spokeStore[c].wrappedNativeToken = Undefined
          THEN [read EXCEPT !.status = "rejected",
                            !.error = MissingWrappedNative]
          ELSE IF tokens = << >>
          THEN [read EXCEPT !.status = "resolved"]
          ELSE [read EXCEPT !.status = "symbols"]]
  /\ UNCHANGED <<frPc, frResult, frError, spokePoolAddresses, spokeTokenTable,
               constructed>>
  /\ completed' = IF task'[c].status = "resolved"
                  THEN Append(completed, c)
                  ELSE completed
  /\ UNCHANGED <<hubVars, spokeVars, queryVars>>

\* line 331: spoke.update() rejected, and with it the callback
GetSpokePoolStateRejected(c) ==
  /\ task[c].status = "update"
  /\ spokeStore[c].result = UpstreamError
  /\ task' = [task EXCEPT ![c].status = "rejected",
                          ![c].error = UpstreamError]
  /\ UNCHANGED <<frPc, frResult, frError, spokePoolAddresses, spokeTokenTable,
               constructed, completed>>
  /\ UNCHANGED <<hubVars, spokeVars, queryVars>>

\* the supported tokens whose symbol() call has not resolved
PendingSymbols(c) ==
  { t \in Range(task[c].supportedTokens) :
      \A i \in DOMAIN task[c].symbols : task[c].symbols[i][1] # t }

\* lines 338-341: one symbol() call resolves; the Promise.all of line 337
\* resolves with the last of them and the callback returns
SymbolResolves(c, tokenAddress) ==
  /\ task[c].status = "symbols"
  /\ tokenAddress \in PendingSymbols(c)
  /\ task' = [task EXCEPT
       ![c].symbols =
          Append(@, << tokenAddress, SymbolOnChain(tokenAddress) >>),
       ![c].status =
          IF PendingSymbols(c) = {tokenAddress} THEN "resolved" ELSE @]
  /\ UNCHANGED <<frPc, frResult, frError, spokePoolAddresses, spokeTokenTable,
               constructed>>
  /\ completed' = IF task'[c].status = "resolved"
                  THEN Append(completed, c)
                  ELSE completed
  /\ UNCHANGED <<hubVars, spokeVars, queryVars>>

\* one symbol() call rejects: so do the Promise.all of line 337 and the
\* callback
SymbolFails(c, tokenAddress) ==
  /\ task[c].status = "symbols"
  /\ tokenAddress \in PendingSymbols(c)
  /\ task' = [task EXCEPT ![c].status = "rejected",
                          ![c].error = SymbolError]
  /\ UNCHANGED <<frPc, frResult, frError, spokePoolAddresses, spokeTokenTable,
               constructed, completed>>
  /\ UNCHANGED <<hubVars, spokeVars, queryVars>>

\* the [tokenAddress, symbol] pairs in the order of supportedTokens, as the
\* Promise.all of line 337 resolves with them
ResolvedSymbols(c) ==
  [i \in DOMAIN task[c].supportedTokens |->
     LET t == task[c].supportedTokens[i]
         j == CHOOSE j \in DOMAIN task[c].symbols : task[c].symbols[j][1] = t
     IN << t, task[c].symbols[j][2] >>]

\* what the callback of one entry resolves with, lines 400-404
SpokeDatum(entry) ==
  LET c == Number(entry.key)
  IN [fromSpokeAddress |-> entry.value,
      fromChain |-> entry.key,
      routes |-> task[c].routes,
      symbols |-> fromEntries(ResolvedSymbols(c)),
      wrappedNativeToken |-> task[c].wrappedNativeToken]

\* RoutesForToken with the native twin pushed for every token
RoutesForTokenAlwaysNative(datum, toChain, fromTokenAddress, tokenTable) ==
  LET route == [fromChain |-> Number(datum.fromChain),
                toChain |-> Number(toChain),
                fromTokenAddress |-> fromTokenAddress,
                fromSpokeAddress |-> datum.fromSpokeAddress,
                fromTokenSymbol |-> Get(datum.symbols, fromTokenAddress),
                isNative |-> FALSE,
                l1TokenAddress |-> Get(tokenTable, fromTokenAddress)]
  IN << route,
        [route EXCEPT
           !.fromTokenSymbol =
              getChainInfo(Number(datum.fromChain)).nativeCurrencySymbol,
           !.isNative = TRUE] >>

\* RoutesForToken that pushes nothing for a token the hub has no L1 token for
RoutesForTokenDropsUnmapped(datum, toChain, fromTokenAddress, tokenTable) ==
  LET route == [fromChain |-> Number(datum.fromChain),
                toChain |-> Number(toChain),
                fromTokenAddress |-> fromTokenAddress,
                fromSpokeAddress |-> datum.fromSpokeAddress,
                fromTokenSymbol |-> Get(datum.symbols, fromTokenAddress),
                isNative |-> FALSE,
                l1TokenAddress |-> Get(tokenTable, fromTokenAddress)]
  IN IF ~Has(tokenTable, fromTokenAddress)
     THEN << >>
     ELSE IF fromTokenAddress = datum.wrappedNativeToken
     THEN << route,
             [route EXCEPT
                !.fromTokenSymbol =
                   getChainInfo(Number(datum.fromChain)).nativeCurrencySymbol,
                !.isNative = TRUE] >>
     ELSE << route >>

\* RoutesForToken that pushes nothing for a route the hub's getRoutes()
\* table marks disabled
RoutesForTokenHubEnabled(datum, toChain, fromTokenAddress, tokenTable) ==
  LET route == [fromChain |-> Number(datum.fromChain),
                toChain |-> Number(toChain),
                fromTokenAddress |-> fromTokenAddress,
                fromSpokeAddress |-> datum.fromSpokeAddress,
                fromTokenSymbol |-> Get(datum.symbols, fromTokenAddress),
                isNative |-> FALSE,
                l1TokenAddress |-> Get(tokenTable, fromTokenAddress)]
      hubRoutes == getRoutes(hubEvents)
      disabled ==
        /\ Has(hubRoutes, datum.fromChain)
        /\ Has(Get(hubRoutes, datum.fromChain), toChain)
        /\ Has(Get(Get(hubRoutes, datum.fromChain), toChain), fromTokenAddress)
        /\ ~Get(Get(Get(hubRoutes, datum.fromChain), toChain), fromTokenAddress)
  IN IF disabled
     THEN << >>
     ELSE IF fromTokenAddress = datum.wrappedNativeToken
     THEN << route,
             [route EXCEPT
                !.fromTokenSymbol =
                   getChainInfo(Number(datum.fromChain)).nativeCurrencySymbol,
                !.isNative = TRUE] >>
     ELSE << route >>

\* lines 413-434: the routes pushed for one token of one destination chain
RoutesForToken(datum, toChain, fromTokenAddress, tokenTable) ==
  LET route == [fromChain |-> Number(datum.fromChain),
                toChain |-> Number(toChain),
                fromTokenAddress |-> fromTokenAddress,
                fromSpokeAddress |-> datum.fromSpokeAddress,
                fromTokenSymbol |-> Get(datum.symbols, fromTokenAddress),
                isNative |-> FALSE,
                l1TokenAddress |-> Get(tokenTable, fromTokenAddress)]
  IN IF fromTokenAddress = datum.wrappedNativeToken
     THEN << route,
             [route EXCEPT
                !.fromTokenSymbol =
                   getChainInfo(Number(datum.fromChain)).nativeCurrencySymbol,
                !.isNative = TRUE] >>
     ELSE << route >>

\* lines 409-437: the routes pushed for one spoke
RoutesForSpoke(datum, tokenTable) ==
  flat([i \in DOMAIN datum.routes |->
          flat([j \in DOMAIN datum.routes[i].value |->
                  RoutesForToken(datum, datum.routes[i].key,
                                 datum.routes[i].value[j], tokenTable)])])

\* lines 380-437: allRoutes after the forEach over spokeData
AllRoutes(spokeData, tokenTable) ==
  flat([i \in DOMAIN spokeData |-> RoutesForSpoke(spokeData[i], tokenTable)])

\* FetchRoutesJoins that waits for every callback to settle and joins the
\* routes of those that resolved
FetchRoutesJoinsSettled ==
  /\ frPc = "spokes"
  /\ \A i \in DOMAIN spokePoolAddresses :
       task[Number(spokePoolAddresses[i].key)].status
         \in {"resolved", "rejected"}
  /\ LET resolved ==
           SelectSeq(spokePoolAddresses,
                     LAMBDA entry : task[Number(entry.key)].status = "resolved")
         spokeData == [i \in DOMAIN resolved |-> SpokeDatum(resolved[i])]
     IN frResult' = << [hubPoolChain |-> HubPoolChain,
                        hubPoolAddress |-> HubPoolAddress,
                        hubPoolWethAddress |-> wethAddress,
                        routes |-> AllRoutes(spokeData, spokeTokenTable)] >>
  /\ frPc' = "resolved"
  /\ UNCHANGED <<frError, spokePoolAddresses, spokeTokenTable, task, constructed,
               completed>>
  /\ UNCHANGED <<hubVars, spokeVars, queryVars>>

\* FetchRoutesJoins that joins the routes of the callbacks that have
\* resolved as soon as one of them has
FetchRoutesJoinsResolved ==
  /\ frPc = "spokes"
  /\ \E i \in DOMAIN spokePoolAddresses :
       task[Number(spokePoolAddresses[i].key)].status = "resolved"
  /\ LET resolved ==
           SelectSeq(spokePoolAddresses,
                     LAMBDA entry : task[Number(entry.key)].status = "resolved")
         spokeData == [i \in DOMAIN resolved |-> SpokeDatum(resolved[i])]
     IN frResult' = << [hubPoolChain |-> HubPoolChain,
                        hubPoolAddress |-> HubPoolAddress,
                        hubPoolWethAddress |-> wethAddress,
                        routes |-> AllRoutes(spokeData, spokeTokenTable)] >>
  /\ frPc' = "resolved"
  /\ UNCHANGED <<frError, spokePoolAddresses, spokeTokenTable, task, constructed,
               completed>>
  /\ UNCHANGED <<hubVars, spokeVars, queryVars>>

\* FetchRoutesJoins that joins the callbacks' results in the order in which
\* the callbacks resolved
FetchRoutesJoinsAsCompleted ==
  /\ frPc = "spokes"
  /\ \A i \in DOMAIN spokePoolAddresses :
       task[Number(spokePoolAddresses[i].key)].status = "resolved"
  /\ LET entryOf(c) ==
           spokePoolAddresses[CHOOSE k \in DOMAIN spokePoolAddresses :
                                Number(spokePoolAddresses[k].key) = c]
         spokeData == [i \in DOMAIN completed |->
                         SpokeDatum(entryOf(completed[i]))]
     IN frResult' = << [hubPoolChain |-> HubPoolChain,
                        hubPoolAddress |-> HubPoolAddress,
                        hubPoolWethAddress |-> wethAddress,
                        routes |-> AllRoutes(spokeData, spokeTokenTable)] >>
  /\ frPc' = "resolved"
  /\ UNCHANGED <<frError, spokePoolAddresses, spokeTokenTable, task, constructed,
               completed>>
  /\ UNCHANGED <<hubVars, spokeVars, queryVars>>

\* every callback resolved: the Promise.all of line 382 resolves, the
\* routes are joined and fetchRoutes() returns, lines 409-444
FetchRoutesJoins ==
  /\ frPc = "spokes"
  /\ \A i \in DOMAIN spokePoolAddresses :
       task[Number(spokePoolAddresses[i].key)].status = "resolved"
  /\ LET spokeData == [i \in DOMAIN spokePoolAddresses |->
                         SpokeDatum(spokePoolAddresses[i])]
     IN frResult' = << [hubPoolChain |-> HubPoolChain,
                        hubPoolAddress |-> HubPoolAddress,
                        hubPoolWethAddress |-> wethAddress,
                        routes |-> AllRoutes(spokeData, spokeTokenTable)] >>
  /\ frPc' = "resolved"
  /\ UNCHANGED <<frError, spokePoolAddresses, spokeTokenTable, task, constructed,
               completed>>
  /\ UNCHANGED <<hubVars, spokeVars, queryVars>>

\* a callback rejected: the Promise.all of line 382 rejects with its error,
\* and so does fetchRoutes(); the other callbacks run on unobserved
FetchRoutesSpokeRejected(c) ==
  /\ frPc = "spokes"
  /\ task[c].status = "rejected"
  /\ frPc' = "rejected"
  /\ frError' = task[c].error
  /\ UNCHANGED <<frResult, spokePoolAddresses, spokeTokenTable, task, constructed,
               completed>>
  /\ UNCHANGED <<hubVars, spokeVars, queryVars>>

\* no fetchEvents() is followed query by query
NoQueries ==
  /\ qStore = "none"
  /\ qConfig = [startBlock |-> 0, ranged |-> FALSE, maxRange |-> 0]
  /\ currentHead = 0
  /\ latestBlock = 0
  /\ qPc = "notCalled"
  /\ fetchers = << >>
  /\ issued = << >>

\* a hub store on its own
InitHub ==
  /\ hubUpstream \in HubUpstreams
  /\ HubConstructed
  /\ NoSpokes

\* a spoke store on its own, at the address "0xSpoke" of one chain
InitSpoke ==
  /\ NoHub
  /\ \E c \in SpokeChains, upstream \in SpokeUpstreams :
       /\ spokeUpstream = [d \in SpokeChains |->
                             IF d = c THEN upstream ELSE << >>]
       /\ spokeStore = [d \in SpokeChains |->
                          IF d = c THEN NewSpokePoolUtils("0xSpoke")
                          ELSE NoStore]
  /\ spokeStored = [c \in SpokeChains |-> << >>]

InitStore == (InitHub \/ InitSpoke) /\ NoFetchRoutes /\ NoQueries

StoreNext ==
  \/ HubUpdateCall /\ UNCHANGED <<spokeVars, frVars, queryVars>>
  \/ HubFetchEvents /\ UNCHANGED <<spokeVars, frVars, queryVars>>
  \/ HubFetchEventsFails /\ UNCHANGED <<spokeVars, frVars, queryVars>>
  \/ HubWeth /\ UNCHANGED <<spokeVars, frVars, queryVars>>
  \/ HubWethFails /\ UNCHANGED <<spokeVars, frVars, queryVars>>
  \/ \E c \in SpokeChains :
       SpokeUpdateCall(c) /\ UNCHANGED <<hubVars, frVars, queryVars>>
  \/ \E c \in SpokeChains :
       SpokeFetchEvents(c) /\ UNCHANGED <<hubVars, frVars, queryVars>>
  \/ \E c \in SpokeChains :
       SpokeFetchEventsFails(c) /\ UNCHANGED <<hubVars, frVars, queryVars>>
  \/ \E c \in SpokeChains :
       SpokeWrappedNative(c) /\ UNCHANGED <<hubVars, frVars, queryVars>>
  \/ \E c \in SpokeChains :
       SpokeWrappedNativeFallback(c) /\ UNCHANGED <<hubVars, frVars, queryVars>>

\* one store, hub or spoke, on its own: its owner calls update() as often as
\* the upstream has answers, one call at a time
SpecStore == InitStore /\ [][StoreNext]_vars

----------------------------------------------------------------------------
(* fetchRoutes: the upstream of one call, and the specification *)

\* the hub events of a fetchRoutes() run: chain 10's spoke set and set
\* again, chain 137's spoke, a spoke on a chain the configuration does not
\* know, a rebalance route for "0xToken", and a deposit route switched off
RoutesHubEvents ==
  { Event(CrossChainContractsSet, <<1, 0, 0>>,
          [l2ChainId |-> 10, spokePool |-> "0xSpoke"]),
    Event(CrossChainContractsSet, <<2, 0, 0>>,
          [l2ChainId |-> 10, spokePool |-> "0xSpokeNew"]),
    Event(CrossChainContractsSet, <<1, 0, 1>>,
          [l2ChainId |-> 137, spokePool |-> "0xSpoke137"]),
    Event(CrossChainContractsSet, <<1, 1, 0>>,
          [l2ChainId |-> 999, spokePool |-> "0xSpoke999"]),
    Event(SetPoolRebalanceRoute, <<1, 1, 1>>,
          [destinationChainId |-> 10, l1Token |-> "0xL1A",
           destinationToken |-> "0xToken"]) }

RoutesHubAnswers ==
  { Answers(log) : log \in SeqsUpTo(RoutesHubEvents, MaxFetched) }

\* both spokes known and "0xToken" mapped
RoutesHubBothSpokes ==
  Answers(<< Event(CrossChainContractsSet, <<1, 0, 0>>,
                   [l2ChainId |-> 10, spokePool |-> "0xSpoke"]),
             Event(CrossChainContractsSet, <<1, 0, 1>>,
                   [l2ChainId |-> 137, spokePool |-> "0xSpoke137"]),
             Event(SetPoolRebalanceRoute, <<1, 1, 1>>,
                   [destinationChainId |-> 10, l1Token |-> "0xL1A",
                    destinationToken |-> "0xToken"]) >>)

\* a spoke log of at most one event, which enables one route
RoutesFewLogs ==
  SpokeLogs({ [destinationChainId |-> 1, originToken |-> "0xToken",
               enabled |-> TRUE] }, 1)

\* the hub's deposit-route events for chain 10's route to chain 1
RoutesDepositRouteEvents ==
  { Event(SetEnableDepositRoute, <<2, 0, 0>>,
          [originChainId |-> 10, destinationChainId |-> 1,
           originToken |-> "0xToken", depositsEnabled |-> FALSE]),
    Event(SetEnableDepositRoute, <<2, 0, 1>>,
          [originChainId |-> 10, destinationChainId |-> 1,
           originToken |-> "0xToken", depositsEnabled |-> TRUE]) }

\* chain 10's spoke known and "0xToken" mapped, followed by deposit-route
\* events
RoutesHubDepositRoutes ==
  { Answers(<< Event(CrossChainContractsSet, <<1, 0, 0>>,
                     [l2ChainId |-> 10, spokePool |-> "0xSpoke"]),
               Event(SetPoolRebalanceRoute, <<1, 1, 1>>,
                     [destinationChainId |-> 10, l1Token |-> "0xL1A",
                      destinationToken |-> "0xToken"]) >> \o switches) :
      switches \in SeqsUpTo(RoutesDepositRouteEvents, MaxFetched - 2) }

\* the upstream of one fetchRoutes() run: the hub's answer and each spoke's.
\* Either the hub log varies and the spoke logs are short, or the hub knows
\* both spokes and chain 10's log varies, or the hub switches a deposit route
\* of chain 10.
RoutesUpstreams ==
  { [hub |-> h, spoke |-> [c \in SpokeChains |-> IF c = 10 THEN a ELSE b]] :
      h \in RoutesHubAnswers, a \in RoutesFewLogs, b \in RoutesFewLogs }
  \cup
  { [hub |-> RoutesHubBothSpokes,
     spoke |-> [c \in SpokeChains |-> IF c = 10 THEN a ELSE b]] :
      a \in SpokeLogs(DepositArgs, MaxFetched - 1), b \in RoutesFewLogs }
  \cup
  { [hub |-> h, spoke |-> [c \in SpokeChains |-> IF c = 10 THEN a ELSE << >>]] :
      h \in RoutesHubDepositRoutes, a \in RoutesFewLogs }

\* fetchRoutes(hubPoolChain) was called and has run to its first await,
\* inside hubPool.update(): lines 364-375
InitRoutes ==
  /\ \E upstream \in RoutesUpstreams :
       /\ hubUpstream = << upstream.hub >>
       /\ spokeUpstream = [c \in SpokeChains |-> << upstream.spoke[c] >>]
  /\ hubEvents = << >>
  /\ wethAddress = Undefined
  /\ hubPc = "fetchEvents"
  /\ hubResult = "pending"
  /\ hubFetched = << >>
  /\ hubStored = << >>
  /\ hubUpdates = << >>
  /\ spokeStore = [c \in SpokeChains |-> NoStore]
  /\ spokeStored = [c \in SpokeChains |-> << >>]
  /\ frPc = "hubUpdate"
  /\ frResult = << >>
  /\ frError = ""
  /\ spokePoolAddresses = EmptyObject
  /\ spokeTokenTable = EmptyObject
  /\ task = [c \in TaskChains |-> NoTask]
  /\ constructed = << >>
  /\ completed = << >>
  /\ NoQueries

RoutesNext ==
  \/ HubFetchEvents /\ UNCHANGED <<spokeVars, frVars, queryVars>>
  \/ HubFetchEventsFails /\ UNCHANGED <<spokeVars, frVars, queryVars>>
  \/ HubWeth /\ UNCHANGED <<spokeVars, frVars, queryVars>>
  \/ HubWethFails /\ UNCHANGED <<spokeVars, frVars, queryVars>>
  \/ FetchRoutesHubRejected
  \/ FetchRoutesFanOut
  \/ \E c \in SpokeChains :
       SpokeFetchEvents(c) /\ UNCHANGED <<hubVars, frVars, queryVars>>
  \/ \E c \in SpokeChains :
       SpokeFetchEventsFails(c) /\ UNCHANGED <<hubVars, frVars, queryVars>>
  \/ \E c \in SpokeChains :
       SpokeWrappedNative(c) /\ UNCHANGED <<hubVars, frVars, queryVars>>
  \/ \E c \in SpokeChains :
       SpokeWrappedNativeFallback(c) /\ UNCHANGED <<hubVars, frVars, queryVars>>
  \/ \E c \in SpokeChains : GetSpokePoolStateReads(c)
  \/ \E c \in SpokeChains : GetSpokePoolStateRejected(c)
  \/ \E c \in SpokeChains, t \in {"0xToken", FallbackWrappedNative} :
       SymbolResolves(c, t)
  \/ \E c \in SpokeChains, t \in {"0xToken", FallbackWrappedNative} :
       SymbolFails(c, t)
  \/ FetchRoutesJoins
  \/ \E c \in TaskChains : FetchRoutesSpokeRejected(c)

\* one call of fetchRoutes()
Spec == InitRoutes /\ [][RoutesNext]_vars

\* the continuations of settled promises are run: a rejection that has
\* happened is propagated. Nothing is assumed of the upstream's answers.
RejectionsPropagate ==
  /\ WF_vars(FetchRoutesHubRejected)
  /\ WF_vars(FetchRoutesFanOut)
  /\ \A c \in SpokeChains : WF_vars(GetSpokePoolStateRejected(c))
  /\ WF_vars(\E c \in TaskChains : FetchRoutesSpokeRejected(c))

SpecFair == Spec /\ RejectionsPropagate

----------------------------------------------------------------------------
(* fetchEvents(), query by query *)

MaxHead == 3

\* the queries array of the store's fetchEvents(): lines 194-255, 117-130
QueryKinds(store) ==
  IF store = "hub" THEN HubQueryKinds ELSE << EnabledDepositRoute >>

\* the spoke store whose fetchEvents() is followed
QuerySpokeChain == 10

\* the events the contract has emitted, by block
QueryChainLog(store) ==
  IF store = "hub"
  THEN { Event(CrossChainContractsSet, <<1, 0, 0>>,
               [l2ChainId |-> 10, spokePool |-> "0xSpoke"]),
         Event(SetPoolRebalanceRoute, <<1, 1, 1>>,
               [destinationChainId |-> 10, l1Token |-> "0xL1A",
                destinationToken |-> "0xToken"]),
         Event(CrossChainContractsSet, <<2, 0, 0>>,
               [l2ChainId |-> 10, spokePool |-> "0xSpokeNew"]),
         Event(L1TokenEnabledForLiquidityProvision, <<3, 0, 0>>,
               [l1Token |-> "0xL1A", lpToken |-> "0xLpX"]) }
  ELSE { Event(EnabledDepositRoute, <<1, 0, 1>>,
               [destinationChainId |-> 1, originToken |-> "0xToken",
                enabled |-> TRUE]),
         Event(EnabledDepositRoute, <<2, 0, 1>>,
               [destinationChainId |-> 137, originToken |-> "0xToken",
                enabled |-> TRUE]),
         Event(EnabledDepositRoute, <<3, 0, 1>>,
               [destinationChainId |-> 1, originToken |-> "0xToken",
                enabled |-> FALSE]) }

\* a was emitted before b
EmittedBefore(a, b) ==
  \/ a.blockNumber < b.blockNumber
  \/ /\ a.blockNumber = b.blockNumber
     /\ \/ a.transactionIndex < b.transactionIndex
        \/ /\ a.transactionIndex = b.transactionIndex
           /\ a.logIndex < b.logIndex

\* what contract.queryFilter(filter, from, to) resolves with: the events of
\* the kind in the blocks from..to, in the chain's order
QueryFilter(store, kind, from, to) ==
  LET found == { e \in QueryChainLog(store) :
                   /\ e.event = kind
                   /\ from <= e.blockNumber
                   /\ e.blockNumber <= to }
  IN CHOOSE answer \in [1..Cardinality(found) -> found] :
       /\ Range(answer) = found
       /\ \A i, j \in DOMAIN answer :
            i < j => EmittedBefore(answer[i], answer[j])

\* the constructor's startBlock and maxRange
QueryConfigs ==
  { [startBlock |-> b, ranged |-> FALSE, maxRange |-> 0] : b \in 0..1 }
  \cup { [startBlock |-> b, ranged |-> TRUE, maxRange |-> w] :
           b \in 0..1, w \in 1..2 }

\* latestBlock with the hub's margin of one block left out
LatestBlockExactHead(store, head) == head

\* const latestBlock of fetchEvents(): line 191 for the hub, 113 for a spoke
LatestBlock(store, head) == IF store = "hub" THEN head - 1 ELSE head

\* the Ranged Event Fetcher: the last block of the query that starts at
\* `from`, when the fetch is to end at endBlock
SliceEnd(from, endBlock, config) ==
  IF ~config.ranged \/ endBlock - from <= config.maxRange
  THEN endBlock
  ELSE from + config.maxRange

\* incrementalEvents(...) is called: its first query is issued
StartedFetcher(kind, endBlock, config) ==
  [kind |-> kind, from |-> config.startBlock,
   to |-> SliceEnd(config.startBlock, endBlock, config),
   state |-> "inFlight", results |-> << >>]

\* the queries array is built: every incrementalEvents call of it is made
StartedFetchers(store, endBlock, config) ==
  [k \in DOMAIN QueryKinds(store) |->
     StartedFetcher(QueryKinds(store)[k], endBlock, config)]

QueryOf(fetcher) ==
  [kind |-> fetcher.kind, from |-> fetcher.from, to |-> fetcher.to]

\* fetchEvents() was called on a store just constructed and awaits
\* provider.getBlockNumber()
InitQueries ==
  /\ qStore \in {"hub", "spoke"}
  /\ qConfig \in QueryConfigs
  /\ currentHead \in 0..MaxHead
  /\ latestBlock = 0
  /\ qPc = "getBlockNumber"
  /\ fetchers = << >>
  /\ issued = << >>
  /\ NoHub
  /\ spokeUpstream = [c \in SpokeChains |-> << >>]
  /\ spokeStored = [c \in SpokeChains |-> << >>]
  /\ spokeStore = [c \in SpokeChains |->
                     IF qStore = "spoke" /\ c = QuerySpokeChain
                     THEN NewSpokePoolUtils("0xSpoke")
                     ELSE NoStore]
  /\ NoFetchRoutes

\* getBlockNumber() resolved: lines 191-255 for the hub, which builds its
\* queries array at once; line 113 for a spoke, which awaits getNetwork()
QueryGetBlockNumber ==
  /\ qPc = "getBlockNumber"
  /\ latestBlock' = LatestBlock(qStore, currentHead)
  /\ IF qStore = "hub"
     THEN /\ fetchers' = StartedFetchers(qStore, latestBlock', qConfig)
          /\ issued' = [k \in DOMAIN fetchers' |-> QueryOf(fetchers'[k])]
          /\ qPc' = "queries"
     ELSE /\ qPc' = "getNetwork"
          /\ UNCHANGED <<fetchers, issued>>
  /\ UNCHANGED <<qStore, qConfig, currentHead>>
  /\ UNCHANGED <<hubVars, spokeVars, frVars>>

\* getNetwork() resolved: the spoke builds its queries array, lines 114-130
QueryGetNetwork ==
  /\ qPc = "getNetwork"
  /\ fetchers' = StartedFetchers(qStore, latestBlock, qConfig)
  /\ issued' = [k \in DOMAIN fetchers' |-> QueryOf(fetchers'[k])]
  /\ qPc' = "queries"
  /\ UNCHANGED <<qStore, qConfig, currentHead, latestBlock>>
  /\ UNCHANGED <<hubVars, spokeVars, frVars>>

\* getBlockNumber() or getNetwork() rejected, and fetchEvents() with it
QueryProviderFails ==
  /\ qPc \in {"getBlockNumber", "getNetwork"}
  /\ qPc' = "rejected"
  /\ UNCHANGED <<qStore, qConfig, currentHead, latestBlock, fetchers, issued>>
  /\ UNCHANGED <<hubVars, spokeVars, frVars>>

\* the query in flight of the k-th incrementalEvents call resolved: the
\* call issues its next query, or resolves with the concatenated results
QueryReturns(k) ==
  /\ k \in DOMAIN fetchers
  /\ fetchers[k].state = "inFlight"
  /\ LET fetcher == fetchers[k]
         results ==
           fetcher.results
             \o QueryFilter(qStore, fetcher.kind, fetcher.from, fetcher.to)
         next == [fetcher EXCEPT
                    !.from = fetcher.to + 1,
                    !.to = SliceEnd(fetcher.to + 1, latestBlock, qConfig),
                    !.results = results]
     IN IF fetcher.to >= latestBlock
        THEN /\ fetchers' = [fetchers EXCEPT ![k].state = "done",
                                             ![k].results = results]
             /\ UNCHANGED issued
        ELSE /\ fetchers' = [fetchers EXCEPT ![k] = next]
             /\ issued' = Append(issued, QueryOf(next))
  /\ UNCHANGED <<qStore, qConfig, currentHead, latestBlock, qPc>>
  /\ UNCHANGED <<hubVars, spokeVars, frVars>>

\* the query in flight of the k-th incrementalEvents call rejected, and
\* the call with it; the upstream fails at most once
QueryFails(k) ==
  /\ k \in DOMAIN fetchers
  /\ fetchers[k].state = "inFlight"
  /\ \A j \in DOMAIN fetchers : fetchers[j].state # "failed"
  /\ fetchers' = [fetchers EXCEPT ![k].state = "failed"]
  /\ UNCHANGED <<qStore, qConfig, currentHead, latestBlock, qPc, issued>>
  /\ UNCHANGED <<hubVars, spokeVars, frVars>>

\* bluebird.mapSeries(queries, (x) => x), lines 256 and 131, has awaited
\* the calls before a rejected one: it rejects, and fetchEvents() with it
QueryFetchEventsRejects ==
  /\ qPc = "queries"
  /\ \E k \in DOMAIN fetchers :
       /\ fetchers[k].state = "failed"
       /\ \A j \in 1..(k - 1) : fetchers[j].state = "done"
  /\ qPc' = "rejected"
  /\ UNCHANGED <<qStore, qConfig, currentHead, latestBlock, fetchers, issued>>
  /\ UNCHANGED <<hubVars, spokeVars, frVars>>

\* every call resolved: the results are flattened, sorted by the hub, and
\* assigned to this.events, lines 256-268 and 131-132
QueryFetchEventsStores ==
  /\ qPc = "queries"
  /\ \A k \in DOMAIN fetchers : fetchers[k].state = "done"
  /\ LET results == [k \in DOMAIN fetchers |-> fetchers[k].results]
     IN IF qStore = "hub"
        THEN /\ IF fetchedHubEvents(hubEvents, results).threw
                THEN qPc' = "rejected" /\ UNCHANGED hubEvents
                ELSE /\ qPc' = "done"
                     /\ hubEvents' = fetchedHubEvents(hubEvents, results).value
             /\ UNCHANGED <<hubUpstream, wethAddress, hubPc, hubResult,
                            hubFetched, hubStored, hubUpdates>>
             /\ UNCHANGED spokeVars
        ELSE /\ qPc' = "done"
             /\ spokeStore' =
                  [spokeStore EXCEPT ![QuerySpokeChain].events =
                     fetchedSpokeEvents(@, results)]
             /\ UNCHANGED <<spokeUpstream, spokeStored>>
             /\ UNCHANGED hubVars
  /\ UNCHANGED <<qStore, qConfig, currentHead, latestBlock, fetchers, issued>>
  /\ UNCHANGED frVars

QueriesNext ==
  \/ QueryGetBlockNumber
  \/ QueryGetNetwork
  \/ QueryProviderFails
  \/ \E k \in 1..Len(HubQueryKinds) : QueryReturns(k)
  \/ \E k \in 1..Len(HubQueryKinds) : QueryFails(k)
  \/ QueryFetchEventsRejects
  \/ QueryFetchEventsStores

\* one fetchEvents() call of one store, query by query
SpecQueries == InitQueries /\ [][QueriesNext]_vars

----------------------------------------------------------------------------
(* Vocabulary of the properties *)

\* a before b in (blockNumber, transactionIndex, logIndex) order
KeyBefore(a, b) ==
  \/ a.blockNumber < b.blockNumber
  \/ /\ a.blockNumber = b.blockNumber
     /\ a.transactionIndex < b.transactionIndex
  \/ /\ a.blockNumber = b.blockNumber
     /\ a.transactionIndex = b.transactionIndex
     /\ a.logIndex < b.logIndex

SameKey(a, b) ==
  /\ a.blockNumber = b.blockNumber
  /\ a.transactionIndex = b.transactionIndex
  /\ a.logIndex = b.logIndex

Count(s, e) == Cardinality({ i \in DOMAIN s : s[i] = e })

IsPermutation(s, t) ==
  /\ Len(s) = Len(t)
  /\ \A e \in Range(s) \cup Range(t) : Count(s, e) = Count(t, e)

StrictlyAscending(events) ==
  \A i \in DOMAIN events :
    i < Len(events) => KeyBefore(events[i], events[i + 1])

HasDuplicateKey(events) ==
  \E i, j \in DOMAIN events : i < j /\ SameKey(events[i], events[j])

\* the events of a set that no other event of the set follows in key order
LastByKey(events) ==
  { e \in events : \A f \in events : f = e \/ KeyBefore(f, e) }

\* the latest fetch that was stored
hubLastFetch ==
  IF hubStored = << >> THEN << >> ELSE hubStored[Len(hubStored)]

spokeLastFetch(c) ==
  IF spokeStored[c] = << >> THEN << >> ELSE spokeStored[c][Len(spokeStored[c])]

\* what the latest stored fetch returned, as a set
LastFetchedEvents == Range(flat(hubLastFetch))

----------------------------------------------------------------------------
(* C5: after every successful hub fetchEvents() the stored log is a        *)
(* permutation of the concatenation of the five per-kind results and is    *)
(* strictly ascending by (blockNumber, transactionIndex, logIndex),        *)
(* whatever the order in which the kinds and blocks came back.             *)
C5_StoredLogIsSortedPermutation ==
  /\ IsPermutation(hubEvents, flat(hubLastFetch))
  /\ StrictlyAscending(hubEvents)

\* three events of three kinds were fetched in an order that is not their
\* block order, and were stored
C5_Witness ==
  /\ hubPc = "weth"
  /\ Len(hubEvents) = 3
  /\ hubEvents # flat(hubLastFetch)
  /\ Cardinality({ hubEvents[i].event : i \in DOMAIN hubEvents }) = 3
  /\ hubEvents[1].blockNumber # hubEvents[3].blockNumber

(* C6: whenever the combined result of the five fetches holds two events   *)
(* with the same ordering key, wherever they sit and whatever their kinds, *)
(* fetchEvents() and with it update() fail with the duplicate-event error. *)
C6_DuplicateKeyIsFatal ==
  HasDuplicateKey(flat(hubFetched)) => hubResult = DuplicateEvents

\* the two colliding events are of different kinds and an event with
\* another key sits between them in the concatenation
C6_Witness ==
  /\ hubResult = DuplicateEvents
  /\ LET all == flat(hubFetched)
     IN /\ Len(all) = 3
        /\ SameKey(all[1], all[3])
        /\ ~SameKey(all[1], all[2])
        /\ all[1].event # all[3].event

(* C7: getL1LpTokenTable() holds l1Token exactly when the last event for   *)
(* it, in global order, among the enable and disable events is an enable,  *)
(* with that event's lpToken as value; a disable removes the key, so       *)
(* getL1Tokens() and getLpTokens() list only tokens left enabled.          *)
LiquidityEventsFor(l1Token) ==
  { e \in LastFetchedEvents :
      /\ \/ isL1TokenEnabledForLiquidityProvision(e)
         \/ isL2TokenDisabledForLiquidityProvision(e)
      /\ e.args.l1Token = l1Token }

C7_L1LpTableIsLastEnable ==
  LET table == getL1LpTokenTable(hubEvents)
      enabled ==
        { t \in {"0xL1A", "0xL1B"} :
            \E e \in LastByKey(LiquidityEventsFor(t)) :
              isL1TokenEnabledForLiquidityProvision(e) }
  IN /\ \A t \in {"0xL1A", "0xL1B"} :
          /\ Has(table, t) <=> t \in enabled
          /\ t \in enabled =>
               \A e \in LastByKey(LiquidityEventsFor(t)) :
                 Get(table, t) = e.args.lpToken
     /\ Range(getL1Tokens(hubEvents)) = enabled
     /\ Len(getL1Tokens(hubEvents)) = Cardinality(enabled)
     /\ Len(getLpTokens(hubEvents)) = Cardinality(enabled)
     /\ Range(getLpTokens(hubEvents)) = { Get(table, t) : t \in enabled }

\* a token enabled and then disabled, fetched kind by kind, while another
\* token stays enabled
C7_Witness ==
  /\ hubPc = "weth"
  /\ Len(hubEvents) = 3
  /\ isL1TokenEnabledForLiquidityProvision(hubEvents[1])
  /\ hubEvents[1].args.l1Token = "0xL1A"
  /\ isL2TokenDisabledForLiquidityProvision(hubEvents[2])
  /\ hubEvents[2].args.l1Token = "0xL1A"
  /\ isL1TokenEnabledForLiquidityProvision(hubEvents[3])
  /\ hubEvents[3].args.l1Token = "0xL1B"
  /\ getL1Tokens(hubEvents) = << "0xL1B" >>

(* C8: getSpokeTokenTable() maps every destination token that has a        *)
(* SetPoolRebalanceRoute event to the l1Token of the last such event in    *)
(* global order, whatever the events' destinationChainId; tokens with no   *)
(* such event are absent and nothing removes an entry.                     *)
RebalanceEventsFor(destinationToken) ==
  { e \in LastFetchedEvents :
      /\ isSetPoolRebalanceRoute(e)
      /\ e.args.destinationToken = destinationToken }

C8_SpokeTokenTableIsLastWrite ==
  LET table == getSpokeTokenTable(hubEvents)
  IN \A d \in {"0xToken", "0xOther"} :
       /\ Has(table, d) <=> RebalanceEventsFor(d) # {}
       /\ \A e \in LastByKey(RebalanceEventsFor(d)) :
            Get(table, d) = e.args.l1Token

\* the same token routed for two chains to different L1 tokens, fetched
\* against their block order; the later event decides
C8_Witness ==
  /\ hubPc = "weth"
  /\ LET all == flat(hubLastFetch)
     IN /\ Len(all) = 2
        /\ all[1].event = SetPoolRebalanceRoute
        /\ all[2].event = SetPoolRebalanceRoute
        /\ all[1].args.destinationToken = all[2].args.destinationToken
        /\ all[1].args.destinationChainId # all[2].args.destinationChainId
        /\ all[1].args.l1Token # all[2].args.l1Token
        /\ KeyBefore(all[2], all[1])
        /\ Get(getSpokeTokenTable(hubEvents), all[1].args.destinationToken)
             = all[1].args.l1Token

(* C4: after the fold of routesEnabled() a token t is listed under         *)
(* destination chain d exactly when the last EnabledDepositRoute event of  *)
(* the log for (d, t) has enabled = true; the result depends on the order  *)
(* of the events: [enable(A), disable(A)] leaves A absent and              *)
(* [disable(A), enable(A)] leaves A present.                               *)
Listed(table, destinationChainId, token) ==
  /\ Has(table, toString(destinationChainId))
  /\ token \in Range(Get(table, toString(destinationChainId)))

\* the positions of the log's events for the pair (d, t)
PositionsFor(log, d, t) ==
  { i \in DOMAIN log :
      /\ isEnabledDepositRoute(log[i])
      /\ log[i].args.destinationChainId = d
      /\ log[i].args.originToken = t }

LastEnables(log, d, t) ==
  \E i \in PositionsFor(log, d, t) :
    /\ log[i].args.enabled
    /\ \A j \in PositionsFor(log, d, t) : j <= i

C4_ListedIffLastEventEnables ==
  \A c \in SpokeChains :
    \A d \in {1, 137}, t \in {"0xToken", FallbackWrappedNative} :
      Listed(routesEnabled(spokeStore[c].events), d, t)
        <=> LastEnables(spokeLastFetch(c), d, t)

\* the log [disable(A), enable(A), disable(B)] was folded: A is listed, B
\* is not, and B's destination chain is a key with no token
C4_Witness ==
  \E c \in SpokeChains :
    LET log == spokeLastFetch(c)
        table == routesEnabled(spokeStore[c].events)
    IN /\ spokeStore[c].pc = "wrappedNativeToken"
       /\ Len(log) = 3
       /\ PositionsFor(log, 1, "0xToken") = {1, 2}
       /\ ~log[1].args.enabled
       /\ log[2].args.enabled
       /\ PositionsFor(log, 137, "0xToken") = {3}
       /\ ~log[3].args.enabled
       /\ Listed(table, 1, "0xToken")
       /\ ~Listed(table, 137, "0xToken")
       /\ Has(table, "137")

(* C10: each successful fetchEvents()/update() replaces the stored log     *)
(* with the newly fetched events and merges nothing: after any sequence of *)
(* updates every derived view is the fold of the events of the last        *)
(* successful fetch alone, so a repeated update against an unchanged       *)
(* upstream changes no view, and an event of an earlier fetch that the     *)
(* latest one lacks has no effect.                                         *)
C10_ViewsAreOfLastFetchAlone ==
  /\ LET last == sort(flat(hubLastFetch)).value
     IN /\ hubEvents = last
        /\ getSpokePoolAddresses(hubEvents) = getSpokePoolAddresses(last)
        /\ getL1LpTokenTable(hubEvents) = getL1LpTokenTable(last)
        /\ getL1Tokens(hubEvents) = getL1Tokens(last)
        /\ getLpTokens(hubEvents) = getLpTokens(last)
        /\ getSpokeTokenTable(hubEvents) = getSpokeTokenTable(last)
        /\ getRoutes(hubEvents) = getRoutes(last)
  /\ \A c \in SpokeChains :
       LET last == spokeLastFetch(c)
       IN /\ spokeStore[c].events = last
          /\ routesEnabled(spokeStore[c].events) = routesEnabled(last)
          /\ getSupportedTokens(spokeStore[c].events) = getSupportedTokens(last)
          /\ getSupportedChains(spokeStore[c].events) = getSupportedChains(last)

\* a second update has completed on a hub store whose first fetch held a
\* CrossChainContractsSet event that the second lacks: the spoke address
\* is the second fetch's
C10_Witness ==
  /\ hubResult = "resolved"
  /\ Len(hubStored) = 2
  /\ \E e \in Range(flat(hubStored[1])) \ Range(flat(hubStored[2])) :
       /\ isCrossChainContractsSet(e)
       /\ e.args.spokePool = "0xSpokeNew"
       /\ Get(getSpokePoolAddresses(sort(flat(hubStored[1])).value), "10")
            = "0xSpokeNew"
  /\ Get(getSpokePoolAddresses(hubEvents), "10") = "0xSpoke"

(* Vocabulary of the fetchRoutes() properties *)

Tokens == {"0xToken", FallbackWrappedNative}
Destinations == {1, 137}

\* the chain ids of the hub's spoke-address table that have a spoke store
EntryChains ==
  { c \in SpokeChains : Has(getSpokePoolAddresses(hubEvents), toString(c)) }

\* (c, d, t) is enabled in spoke c's routesEnabled() table
EnabledTriple(c, d, t) ==
  /\ c \in EntryChains
  /\ Listed(routesEnabled(spokeStore[c].events), d, t)

\* the positions of the route list that hold a record of the triple
RecordsOf(routes, c, d, t, native) ==
  { i \in DOMAIN routes :
      /\ routes[i].fromChain = c
      /\ routes[i].toChain = d
      /\ routes[i].fromTokenAddress = t
      /\ routes[i].isNative = native }

(* C1: for every result of fetchRoutes() the route list holds exactly one  *)
(* isNative = false record per (spoke chain, destination chain, token)     *)
(* triple enabled in that spoke's routesEnabled() table, exactly one       *)
(* further isNative = true record for each triple whose token is that      *)
(* spoke's wrappedNativeToken, and no other record; the native twin        *)
(* differs from its non-native record only in isNative and in              *)
(* fromTokenSymbol, which is the chain's native currency symbol.           *)
C1_RouteListIsEnabledTriplesAndNativeTwins ==
  frPc = "resolved" =>
    LET routes == frResult[1].routes
    IN /\ \A i \in DOMAIN routes :
            /\ routes[i].fromChain \in SpokeChains
            /\ EnabledTriple(routes[i].fromChain, routes[i].toChain,
                             routes[i].fromTokenAddress)
            /\ routes[i].isNative =>
                 routes[i].fromTokenAddress
                   = spokeStore[routes[i].fromChain].wrappedNativeToken
       /\ \A c \in SpokeChains, d \in Destinations, t \in Tokens :
            EnabledTriple(c, d, t) =>
              /\ Cardinality(RecordsOf(routes, c, d, t, FALSE)) = 1
              /\ Cardinality(RecordsOf(routes, c, d, t, TRUE))
                   = IF t = spokeStore[c].wrappedNativeToken THEN 1 ELSE 0
              /\ \A i \in RecordsOf(routes, c, d, t, FALSE),
                    j \in RecordsOf(routes, c, d, t, TRUE) :
                   routes[j] =
                     [routes[i] EXCEPT
                        !.isNative = TRUE,
                        !.fromTokenSymbol =
                           getChainInfo(c).nativeCurrencySymbol]

\* fetchRoutes() resolved with routes of two spokes: a native twin whose
\* symbol is not its token's, and a token that is not the wrapped native one
C1_Witness ==
  /\ frPc = "resolved"
  /\ LET routes == frResult[1].routes
     IN /\ \E i, j \in DOMAIN routes : routes[i].fromChain # routes[j].fromChain
        /\ \E i, j \in DOMAIN routes :
             /\ routes[i].isNative
             /\ ~routes[j].isNative
             /\ routes[i].fromChain = routes[j].fromChain
             /\ routes[i].fromTokenAddress = routes[j].fromTokenAddress
             /\ routes[i].fromTokenSymbol # routes[j].fromTokenSymbol
        /\ \E i \in DOMAIN routes :
             routes[i].fromTokenAddress
               # spokeStore[routes[i].fromChain].wrappedNativeToken

(* C2: every route's fromChain and fromSpokeAddress are an entry of the    *)
(* hub's spoke-address table, and its l1TokenAddress is the hub            *)
(* spoke-token table's value for the route's fromTokenAddress; a token     *)
(* with no such mapping still gets its route, with l1TokenAddress absent,  *)
(* and fetchRoutes() resolves.                                             *)
C2_RoutesJoinTheHubTables ==
  frPc = "resolved" =>
    LET routes == frResult[1].routes
        addresses == getSpokePoolAddresses(hubEvents)
        tokenTable == getSpokeTokenTable(hubEvents)
    IN /\ \A i \in DOMAIN routes :
            /\ \E k \in DOMAIN addresses :
                 /\ Number(addresses[k].key) = routes[i].fromChain
                 /\ addresses[k].value = routes[i].fromSpokeAddress
            /\ routes[i].l1TokenAddress =
                 IF Has(tokenTable, routes[i].fromTokenAddress)
                 THEN Get(tokenTable, routes[i].fromTokenAddress)
                 ELSE Undefined
       /\ \A c \in SpokeChains, d \in Destinations, t \in Tokens :
            EnabledTriple(c, d, t) /\ ~Has(tokenTable, t) =>
              \E i \in RecordsOf(routes, c, d, t, FALSE) :
                routes[i].l1TokenAddress = Undefined

\* fetchRoutes() resolved with a route whose token the hub maps to an L1
\* token and a route whose token it does not map
C2_Witness ==
  /\ frPc = "resolved"
  /\ \E i, j \in DOMAIN frResult[1].routes :
       /\ frResult[1].routes[i].l1TokenAddress = "0xL1A"
       /\ frResult[1].routes[j].l1TokenAddress = Undefined
       /\ ~Has(getSpokeTokenTable(hubEvents),
               frResult[1].routes[j].fromTokenAddress)

\* the hub store's update rejected
HubUpdateFailed == hubResult \in {DuplicateEvents, UpstreamError}

\* a spoke store built by fetchRoutes() had its update rejected
SpokeUpdateFailed(c) ==
  /\ task[c].status # "none"
  /\ spokeStore[c].result = UpstreamError

\* a symbol lookup of spoke c rejected
SymbolLookupFailed(c) ==
  /\ task[c].status = "rejected"
  /\ task[c].error = SymbolError

\* the hub's update resolved and its spoke-address table has a chain id
\* that is not a supported chain
UnsupportedChainInTable ==
  /\ hubResult = "resolved"
  /\ \E k \in DOMAIN getSpokePoolAddresses(hubEvents) :
       ~isSupportedChainId(Number(getSpokePoolAddresses(hubEvents)[k].key))

SomethingFailed ==
  \/ HubUpdateFailed
  \/ \E c \in SpokeChains : SpokeUpdateFailed(c)
  \/ \E c \in SpokeChains : SymbolLookupFailed(c)
  \/ UnsupportedChainInTable

(* C3: fetchRoutes() is all-or-nothing: if the hub store's update fails,   *)
(* or any one spoke store's update or symbol lookup fails, or a chain id   *)
(* of the hub's spoke-address table is not a supported chain, then         *)
(* fetchRoutes() rejects with an error and never returns a route list,     *)
(* not even a partial one.                                                 *)
C3_AllOrNothing ==
  /\ [](SomethingFailed => frPc # "resolved" /\ frResult = << >>)
  /\ (SomethingFailed ~> frPc = "rejected")

\* fetchRoutes() rejected on the symbol lookup of one spoke while the
\* callback of the other spoke had resolved with its routes
C3_Witness ==
  /\ frPc = "rejected"
  /\ frError = SymbolError
  /\ frResult = << >>
  /\ \E c, other \in SpokeChains :
       /\ SymbolLookupFailed(c)
       /\ task[other].status = "resolved"
       /\ task[other].routes # EmptyObject

\* the CrossChainContractsSet events of the hub's latest fetch for a chain
CrossChainEventsFor(c) ==
  { e \in LastFetchedEvents :
      isCrossChainContractsSet(e) /\ e.args.l2ChainId = c }

\* getSpokePoolAddresses() is the last write per chain id in key order
SpokePoolAddressesAreLastWrites ==
  LET addresses == getSpokePoolAddresses(hubEvents)
  IN \A c \in TaskChains :
       /\ Has(addresses, toString(c)) <=> CrossChainEventsFor(c) # {}
       /\ \A e \in LastByKey(CrossChainEventsFor(c)) :
            Get(addresses, toString(c)) = e.args.spokePool

\* the callbacks of lines 384-405 were started
FannedOut ==
  \/ frPc \in {"spokes", "resolved"}
  \/ frPc = "rejected" /\ \E c \in TaskChains : task[c].status # "none"

\* the positions of the constructions made for a chain id
ConstructedFor(c) ==
  { i \in DOMAIN constructed : constructed[i].chainId = c }

(* C9 as stated: getSpokePoolAddresses() maps each chain id to the         *)
(* spokePool of the last CrossChainContractsSet event for it in global     *)
(* order, and fetchRoutes() constructs exactly one spoke store per chain   *)
(* id of that table, at that last-written address.                         *)
C9_OneStorePerChainIdOfTheTable ==
  /\ SpokePoolAddressesAreLastWrites
  /\ FannedOut =>
       \A k \in DOMAIN getSpokePoolAddresses(hubEvents) :
         LET entry == getSpokePoolAddresses(hubEvents)[k]
         IN /\ Cardinality(ConstructedFor(Number(entry.key))) = 1
            /\ \A i \in ConstructedFor(Number(entry.key)) :
                 constructed[i].address = entry.value

(* C9: getSpokePoolAddresses() maps each chain id to the spokePool of the  *)
(* last CrossChainContractsSet event for it in global order, and           *)
(* fetchRoutes() constructs exactly one spoke store per supported chain id *)
(* of that table, at that last-written address, and none for any other     *)
(* chain id: a chain id of the table that is not a supported chain gets no *)
(* store.                                                                  *)
C9_OneStorePerSupportedChainIdOfTheTable ==
  /\ SpokePoolAddressesAreLastWrites
  /\ FannedOut =>
       LET addresses == getSpokePoolAddresses(hubEvents)
       IN /\ \A i \in DOMAIN constructed : constructed[i].chainId \in TaskChains
          /\ \A c \in TaskChains :
               IF Has(addresses, toString(c)) /\ isSupportedChainId(c)
               THEN /\ Cardinality(ConstructedFor(c)) = 1
                    /\ \A i \in ConstructedFor(c) :
                         constructed[i].address = Get(addresses, toString(c))
                    /\ spokeStore[c].address = Get(addresses, toString(c))
               ELSE ConstructedFor(c) = {}

\* chain 10's spoke pool was set twice and chain 137's once: the stores
\* are built at chain 10's later address and at chain 137's
C9_Witness ==
  /\ FannedOut
  /\ Cardinality(CrossChainEventsFor(10)) = 2
  /\ Range(constructed) =
       { [chainId |-> 10, address |-> "0xSpokeNew"],
         [chainId |-> 137, address |-> "0xSpoke137"] }
  /\ spokeStore[10].address = "0xSpokeNew"

(* C11: getWethAddress() on a hub store fails with the precondition error *)
(* in every state in which no update() of that store has completed         *)
(* successfully, also after an update() that failed in fetchEvents() or in *)
(* the weth read; after a successful update() it returns the address read  *)
(* from the contract.                                                      *)
C11_WethAddressNeedsASuccessfulUpdate ==
  LET got == getWethAddress(wethAddress)
  IN IF \E i \in DOMAIN hubUpdates : hubUpdates[i] = Succeeded
     THEN got = Returned(WethOnChain)
     ELSE got.threw /\ got.value = WethNotSet

\* two updates were made: the first stored its events and failed in the
\* weth read, the second failed in fetchEvents(); getWethAddress() throws
C11_Witness ==
  /\ hubUpdates = << FailedInWeth, FailedInFetchEvents >>
  /\ hubEvents # << >>
  /\ hubPc = "idle"
  /\ getWethAddress(wethAddress).threw

(* C12: when a spoke store's fetchEvents() succeeds, update() completes    *)
(* successfully with wrappedNativeToken set: to the value the contract's   *)
(* accessor returned if that call succeeded, to the hardcoded fallback     *)
(* address if it failed; a failure of the accessor never makes update() or *)
(* fetchRoutes() fail, while a failure of fetchEvents() does propagate.    *)
C12_AccessorFailureFallsBack ==
  /\ \A c \in SpokeChains :
       LET store == spokeStore[c]
       IN /\ store.fetch = "returned" =>
               /\ store.result # UpstreamError
               /\ store.accessor # "none" =>
                    store.pc = "idle" /\ store.result = "resolved"
          /\ store.accessor = "returned" =>
               store.wrappedNativeToken = WrappedNativeOnChain[c]
          /\ store.accessor = "failed" =>
               /\ store.wrappedNativeToken = FallbackWrappedNative
               /\ task[c].error \notin {UpstreamError, MissingWrappedNative}
          /\ store.fetch = "failed" =>
               /\ store.pc = "idle" /\ store.result = UpstreamError
               /\ store.accessor = "none"
               /\ task[c].status \in {"update", "rejected"}
               /\ frPc # "resolved"
  /\ frPc = "rejected" => SomethingFailed

\* fetchRoutes() resolved although chain 137's accessor failed: its store
\* holds the fallback address, which is not what the contract would have
\* returned, and its route for "0xToken" has no native twin
C12_Witness ==
  /\ frPc = "resolved"
  /\ spokeStore[137].accessor = "failed"
  /\ spokeStore[137].wrappedNativeToken # WrappedNativeOnChain[137]
  /\ \E i \in DOMAIN frResult[1].routes : frResult[1].routes[i].fromChain = 137
  /\ \A i \in DOMAIN frResult[1].routes :
       frResult[1].routes[i].fromChain = 137 => ~frResult[1].routes[i].isNative

(* C13: the ordering key (blockNumber, transactionIndex, logIndex) is      *)
(* unique across the stored log of every store, spoke as well as hub: if   *)
(* the events fetched for a spoke contain two events with the same         *)
(* ordering key, the spoke's update() fails instead of storing and folding *)
(* them.                                                                   *)
C13_SpokeDuplicateKeyIsFatal ==
  \A c \in SpokeChains :
    /\ ~HasDuplicateKey(spokeStore[c].events)
    /\ HasDuplicateKey(spokeLastFetch(c)) => spokeStore[c].result # "resolved"

\* the log without its i-th event
RemoveAt(log, i) == SubSeq(log, 1, i - 1) \o SubSeq(log, i + 1, Len(log))

\* the i-th event of the log disables a pair that the fold of the events
\* before it does not list
DisablesAbsentPair(log, i) ==
  /\ isEnabledDepositRoute(log[i])
  /\ ~log[i].args.enabled
  /\ ~Listed(routesEnabled(SubSeq(log, 1, i - 1)),
             log[i].args.destinationChainId, log[i].args.originToken)

(* C14: in the spoke route-enablement fold an EnabledDepositRoute event    *)
(* with enabled = false for a (destinationChainId, originToken) pair that  *)
(* is not in the table at that point is a no-op: routesEnabled() and       *)
(* getSupportedChains() return what they return for the log with that      *)
(* event removed.                                                          *)
C14_DisableOfAbsentPairIsNoOp ==
  \A c \in SpokeChains :
    LET log == spokeStore[c].events
    IN \A i \in DOMAIN log :
         DisablesAbsentPair(log, i) =>
           /\ routesEnabled(log) = routesEnabled(RemoveAt(log, i))
           /\ getSupportedChains(log) = getSupportedChains(RemoveAt(log, i))

\* the entries of the queries array that have a query in flight
InFlight == { k \in DOMAIN fetchers : fetchers[k].state = "inFlight" }

(* C15: within one hub fetchEvents() call the range fetches of the five    *)
(* event kinds run sequentially in fixed kind order: at every moment at    *)
(* most one event query of the call is in flight, and the first query for  *)
(* a kind is not issued before the last query of the preceding kind has    *)
(* completed.                                                              *)
C15_HubQueriesRunOneAtATime ==
  qStore = "hub" =>
    /\ Cardinality(InFlight) <= 1
    /\ \A k \in DOMAIN fetchers :
         k > 1 => fetchers[k - 1].state = "done"

\* the last block a query of the followed store may cover
HeadBound == IF qStore = "hub" THEN currentHead - 1 ELSE currentHead

\* the events the followed store holds
QueryStoredEvents ==
  IF qStore = "hub" THEN hubEvents ELSE spokeStore[QuerySpokeChain].events

(* C16: every event query issued by hub fetchEvents() covers blocks within *)
(* [startBlock, currentHead - 1], the same upper bound for all five kinds, *)
(* where currentHead is the block number read at the start of the call;    *)
(* every event query issued by spoke fetchEvents() covers blocks within    *)
(* [startBlock, currentHead].                                              *)
C16_QueriesStayWithinStartAndHead ==
  /\ \A i \in DOMAIN issued :
       /\ issued[i].from >= qConfig.startBlock
       /\ issued[i].to <= HeadBound
  /\ \A k \in DOMAIN fetchers :
       fetchers[k].state = "done" => fetchers[k].to = HeadBound
  /\ qPc = "done" =>
       \A i \in DOMAIN QueryStoredEvents :
         /\ QueryStoredEvents[i].blockNumber >= qConfig.startBlock
         /\ QueryStoredEvents[i].blockNumber <= HeadBound

\* a hub fetch at head 3 in ranges of width 1, two queries per kind: the
\* events of blocks 1 and 2 are stored and the event of block 3 is not
C16_Witness ==
  /\ qStore = "hub"
  /\ qPc = "done"
  /\ currentHead = 3
  /\ qConfig = [startBlock |-> 0, ranged |-> TRUE, maxRange |-> 1]
  /\ Len(issued) = 2 * Len(HubQueryKinds)
  /\ { hubEvents[i].blockNumber : i \in DOMAIN hubEvents } = {1, 2}
  /\ \E e \in QueryChainLog("hub") : e.blockNumber = 3

\* the hub store's update() of this fetchRoutes() call awaits the upstream
HubCallOutstanding ==
  /\ frPc # "notCalled"
  /\ hubPc \in {"fetchEvents", "weth"}

\* the callback of spoke c awaits the upstream: inside the store's update()
\* or on a symbol lookup
SpokeCallOutstanding(c) ==
  \/ /\ task[c].status = "update"
     /\ spokeStore[c].pc \in {"fetchEvents", "wrappedNativeToken"}
  \/ task[c].status = "symbols"

UpstreamCallOutstanding ==
  \/ HubCallOutstanding
  \/ \E c \in SpokeChains : SpokeCallOutstanding(c)

(* C17 as stated: while an upstream call issued during fetchRoutes() has   *)
(* not returned, fetchRoutes() has neither resolved nor rejected, whatever *)
(* the other concurrent branches do.                                       *)
C17_HungCallHangsFetchRoutes ==
  UpstreamCallOutstanding => frPc \notin {"resolved", "rejected"}

(* C17, amended: while an upstream call issued during fetchRoutes() has    *)
(* not returned, fetchRoutes() has not resolved; it has not rejected       *)
(* either unless another concurrent branch has failed, and then it has     *)
(* rejected with that branch's error.                                      *)
C17_HungCallNeverResolves ==
  UpstreamCallOutstanding =>
    /\ frPc # "resolved"
    /\ frResult = << >>
    /\ frPc = "rejected" =>
         \E other \in TaskChains :
           /\ ~(other \in SpokeChains /\ SpokeCallOutstanding(other))
           /\ task[other].status = "rejected"
           /\ frError = task[other].error

\* every callback but one has resolved, and that one still awaits the
\* upstream: fetchRoutes() is pending
C17_Witness ==
  /\ frPc = "spokes"
  /\ \E c, other \in SpokeChains :
       /\ SpokeCallOutstanding(c)
       /\ task[other].status = "resolved"
       /\ \A d \in TaskChains \ {c} : task[d].status \in {"none", "resolved"}

\* what the callback of an entry resolves with, told from the upstream's
\* answers alone: the log the spoke's queries returned, whether its
\* wrappedNativeToken() accessor answered, and each token's symbol()
UpstreamSpokeDatum(entry) ==
  LET c == Number(entry.key)
      log == spokeLastFetch(c)
      tokens == getSupportedTokens(log)
  IN [fromSpokeAddress |-> entry.value,
      fromChain |-> entry.key,
      routes |-> routesEnabled(log),
      symbols |-> fromEntries([i \in DOMAIN tokens |->
                                 << tokens[i], SymbolOnChain(tokens[i]) >>]),
      wrappedNativeToken |-> IF spokeStore[c].accessor = "returned"
                             THEN WrappedNativeOnChain[c]
                             ELSE FallbackWrappedNative]

\* the route list told from the upstream's answers alone, spoke by spoke in
\* the iteration order of the hub's spoke-address table
UpstreamRoutes ==
  LET hubLog == sort(flat(hubLastFetch)).value
      table == getSpokePoolAddresses(hubLog)
  IN AllRoutes([i \in DOMAIN table |-> UpstreamSpokeDatum(table[i])],
               getSpokeTokenTable(hubLog))

\* the spoke chains whose callback or store a step writes
BranchesWritten ==
  { c \in SpokeChains : task'[c] # task[c] \/ spokeStore'[c] # spokeStore[c] }

(* C18: the result of fetchRoutes() does not depend on how the spoke       *)
(* fetches and symbol lookups interleave or on the order in which they     *)
(* complete: the route list is the one the upstream's answers determine,   *)
(* spoke by spoke in the iteration order of the hub's spoke-address table, *)
(* and once the callbacks run, a step writes the callback and store of one *)
(* chain only and leaves the hub's log and the two hub tables alone.       *)
C18_ResultIndependentOfInterleaving ==
  /\ [](frPc = "resolved" => frResult[1].routes = UpstreamRoutes)
  /\ [][frPc = "spokes" =>
          /\ Cardinality(BranchesWritten) <= 1
          /\ hubEvents' = hubEvents
          /\ spokePoolAddresses' = spokePoolAddresses
          /\ spokeTokenTable' = spokeTokenTable]_vars

\* fetchRoutes() resolved with routes of both spokes, chain 10's first,
\* though chain 137's callback resolved before chain 10's
C18_Witness ==
  /\ frPc = "resolved"
  /\ completed = << 137, 10 >>
  /\ \E i, j \in DOMAIN frResult[1].routes :
       /\ i < j
       /\ frResult[1].routes[i].fromChain = 10
       /\ frResult[1].routes[j].fromChain = 137

\* a hub log with its SetEnableDepositRoute events taken out
WithoutDepositRoutes(events) ==
  SelectSeq(events, LAMBDA e : ~isSetEnableDepositRoute(e))

\* the hub's getRoutes() table marks the route of a record disabled
HubMarksDisabled(route) ==
  LET hubRoutes == getRoutes(hubEvents)
      origin == toString(route.fromChain)
      destination == toString(route.toChain)
  IN /\ Has(hubRoutes, origin)
     /\ Has(Get(hubRoutes, origin), destination)
     /\ Has(Get(Get(hubRoutes, origin), destination), route.fromTokenAddress)
     /\ ~Get(Get(Get(hubRoutes, origin), destination), route.fromTokenAddress)

(* C19: the route list fetchRoutes() returns is independent of the hub's   *)
(* SetEnableDepositRoute events: it is the list the hub log without those  *)
(* events gives with the same spoke data, so a route the hub's getRoutes() *)
(* table marks disabled is returned when the spoke's log has it enabled.   *)
C19_RoutesIgnoreHubDepositRoutes ==
  frPc = "resolved" =>
    LET hubLog == WithoutDepositRoutes(hubEvents)
        table == getSpokePoolAddresses(hubLog)
    IN /\ spokePoolAddresses = table
       /\ spokeTokenTable = getSpokeTokenTable(hubLog)
       /\ frResult[1].routes =
            AllRoutes([i \in DOMAIN table |-> SpokeDatum(table[i])],
                      getSpokeTokenTable(hubLog))
       /\ \A c \in SpokeChains, d \in Destinations, t \in Tokens :
            EnabledTriple(c, d, t) =>
              RecordsOf(frResult[1].routes, c, d, t, FALSE) # {}

\* fetchRoutes() resolved with a route that the hub's getRoutes() table
\* marks disabled
C19_Witness ==
  /\ frPc = "resolved"
  /\ \E e \in Range(hubEvents) : isSetEnableDepositRoute(e)
  /\ \E i \in DOMAIN frResult[1].routes : HubMarksDisabled(frResult[1].routes[i])

\* the step in which a hub fetchEvents() call fails
HubFetchEventsFailing ==
  /\ hubPc = "fetchEvents"
  /\ hubResult' \in {DuplicateEvents, UpstreamError}

(* C20: a hub fetchEvents() call that fails, by an upstream error or by    *)
(* the duplicate-event error, leaves the store's log and weth address as   *)
(* they were before the call, and with them every derived view; the log    *)
(* is replaced only in the step in which the five fetches have returned    *)
(* and the sort has succeeded, by the sorted results.                      *)
C20_FailedFetchLeavesStoreUnchanged ==
  /\ [][HubFetchEventsFailing =>
          /\ hubEvents' = hubEvents
          /\ wethAddress' = wethAddress
          /\ getWethAddress(wethAddress') = getWethAddress(wethAddress)]_vars
  /\ [][hubEvents' # hubEvents =>
          /\ hubPc = "fetchEvents"
          /\ hubPc' = "weth"
          /\ Len(hubFetched') = Len(HubQueryKinds)
          /\ ~HasDuplicateKey(flat(hubFetched'))
          /\ StrictlyAscending(hubEvents')
          /\ IsPermutation(hubEvents', flat(hubFetched'))]_vars

\* a second update() failed on duplicate events in fetchEvents(), and the
\* store still holds the first update's log and weth address
C20_Witness ==
  /\ hubUpdates = << Succeeded, FailedInFetchEvents >>
  /\ hubResult = DuplicateEvents
  /\ HasDuplicateKey(flat(hubFetched))
  /\ hubEvents # << >>
  /\ hubEvents = sort(flat(hubStored[1])).value
  /\ wethAddress = WethOnChain

============================================================================
